---- MODULE Spec2Model ----
(***************************************************************************)
(* Five-in-a-Row game server: the Game class (board, move legality, win    *)
(* detection), the AIPlayer move selection, and the socket handlers that   *)
(* drive matchmaking, moves, restarts, disconnects and reconnections.      *)
(*                                                                          *)
(* The server is single-threaded JavaScript: every handler and every timer *)
(* callback runs to completion, so each is one atomic action here.         *)
(* Timestamps (createdAt, lastMoveAt, move timestamps), the gameHistory    *)
(* archive and console logging are write-only in the server and are left   *)
(* out of the state.                                                        *)
(***************************************************************************)
EXTENDS Integers, Sequences, FiniteSets, TLC

\* ------------------------------------------------------------------------
\* Program constants
\* ------------------------------------------------------------------------
BoardSize == 19
WinLength == 5
ThreatLength == 4
ProximityRange == 3
BoardCenter == 9
CenterWeight == 18
GracePeriod == 10000
AIMoveDelay == 500
thinkingTime == 1000

Null == "null"
Black == "black"
White == "white"
Draw == "draw"
DisconnectWinner == "disconnect"
NoSocket == 0
NoTimer == 0

Colors == {Black, White}
Rows == 0 .. (BoardSize - 1)
Other(color) == IF color = Black THEN White ELSE Black

\* ------------------------------------------------------------------------
\* Game: board, legality, win detection
\* ------------------------------------------------------------------------
initializeBoard == [r \in Rows |-> [c \in Rows |-> Null]]

InBounds(row, col) == row >= 0 /\ row < BoardSize /\ col >= 0 /\ col < BoardSize

directions == << <<0, 1>>, <<1, 0>>, <<1, 1>>, <<1, -1>> >>

\* The loop "for (let i = 1; i < limit; i++) { if in bounds and own stone
\* count++ else break }": the number of iterations that counted a stone,
\* walking from (row, col) in steps of (sx, sy).
RECURSIVE CountRunFrom(_, _, _, _, _, _, _, _)
CountRunFrom(board, row, col, sx, sy, player, i, limit) ==
    IF i < limit
       /\ InBounds(row + i * sx, col + i * sy)
       /\ board[row + i * sx][col + i * sy] = player
    THEN 1 + CountRunFrom(board, row, col, sx, sy, player, i + 1, limit)
    ELSE 0

\* Loop of only four probes: stops one cell short.
MutCountRun(board, row, col, sx, sy, player, limit) ==
    CountRunFrom(board, row, col, sx, sy, player, 1, limit - 1)

CountRun(board, row, col, sx, sy, player, limit) ==
    CountRunFrom(board, row, col, sx, sy, player, 1, limit)

\* Mutant: the stones of the negative direction are appended, not prepended.
MutWinningStones(row, col, dx, dy, pos, neg) ==
    [k \in 1 .. (neg + 1 + pos) |->
        IF k <= pos + 1
        THEN <<row + (k - 1) * dx, col + (k - 1) * dy>>
        ELSE <<row - (k - pos - 1) * dx, col - (k - pos - 1) * dy>>]

\* winningStones of one axis: the stones found in the negative direction
\* (unshift: farthest first), the played stone, then the stones found in the
\* positive direction (push).
WinningStones(row, col, dx, dy, pos, neg) ==
    [k \in 1 .. (neg + 1 + pos) |->
        <<row + (k - neg - 1) * dx, col + (k - neg - 1) * dy>>]

RECURSIVE checkWinFrom(_, _, _, _, _)
checkWinFrom(board, row, col, player, d) ==
    IF d > Len(directions)
    THEN [won |-> FALSE, winningStones |-> <<>>]
    ELSE LET dx  == directions[d][1]
             dy  == directions[d][2]
             pos == CountRun(board, row, col, dx, dy, player, WinLength)
             neg == CountRun(board, row, col, -dx, -dy, player, WinLength)
         IN IF 1 + pos + neg >= WinLength
            THEN [won |-> TRUE,
                  winningStones |-> WinningStones(row, col, dx, dy, pos, neg)]
            ELSE checkWinFrom(board, row, col, player, d + 1)

checkWin(board, row, col, player) == checkWinFrom(board, row, col, player, 1)

Valid == "valid"
OutOfBounds == "Move out of bounds"
Occupied == "Position already occupied"
NotYourTurn == "Not your turn"
GameIsOver == "Game is over"

\* Mutant: the turn check is missing.
MutIsValidMove(game, row, col, player) ==
    IF ~InBounds(row, col) THEN OutOfBounds
    ELSE IF game.board[row][col] # Null THEN Occupied
    ELSE IF game.gameOver THEN GameIsOver
    ELSE Valid

\* Mutant: the check that the game is over is missing.
MutNoGameOverCheck(game, row, col, player) ==
    IF ~InBounds(row, col) THEN OutOfBounds
    ELSE IF game.board[row][col] # Null THEN Occupied
    ELSE IF game.currentPlayer # player THEN NotYourTurn
    ELSE Valid

\* Mutant: the game is tested for being over before the turn is.
MutGameOverFirst(game, row, col, player) ==
    IF ~InBounds(row, col) THEN OutOfBounds
    ELSE IF game.board[row][col] # Null THEN Occupied
    ELSE IF game.gameOver THEN GameIsOver
    ELSE IF game.currentPlayer # player THEN NotYourTurn
    ELSE Valid

isValidMove(game, row, col, player) ==
    IF ~InBounds(row, col) THEN OutOfBounds
    ELSE IF game.board[row][col] # Null THEN Occupied
    ELSE IF game.currentPlayer # player THEN NotYourTurn
    ELSE IF game.gameOver THEN GameIsOver
    ELSE Valid

PlaceStone(board, row, col, player) ==
    [board EXCEPT ![row] = [@ EXCEPT ![col] = player]]

\* Mutant: the refused move still passes the turn.
MutRejectMove(game, reason) ==
    [game   |-> [game EXCEPT !.currentPlayer = Other(game.currentPlayer)],
     result |-> [success |-> FALSE, reason |-> reason,
                 gameOver |-> game.gameOver, winner |-> game.winner,
                 currentPlayer |-> game.currentPlayer],
     winResult |-> [won |-> FALSE, winningStones |-> <<>>]]

\* "if (!validation.valid) return { success: false, reason }": the object
\* is returned as it was.
RejectMove(game, reason) ==
    [game   |-> game,
     result |-> [success |-> FALSE, reason |-> reason,
                 gameOver |-> game.gameOver, winner |-> game.winner,
                 currentPlayer |-> game.currentPlayer],
     winResult |-> [won |-> FALSE, winningStones |-> <<>>]]

\* Mutant: the full board is tested before the win.
MutDrawBeforeWin(game, row, col, player) ==
    LET reason == isValidMove(game, row, col, player)
    IN IF reason # Valid
       THEN RejectMove(game, reason)
       ELSE LET board1 == PlaceStone(game.board, row, col, player)
                count1 == game.moveCount + 1
                hist1  == Append(game.moveHistory,
                                 [row |-> row, col |-> col, player |-> player,
                                  moveNumber |-> count1])
                win    == checkWin(board1, row, col, player)
                g1     == [game EXCEPT !.board = board1, !.moveCount = count1,
                                       !.moveHistory = hist1]
                g2     == IF count1 >= BoardSize * BoardSize
                          THEN [g1 EXCEPT !.gameOver = TRUE, !.winner = Draw]
                          ELSE IF win.won
                          THEN [g1 EXCEPT !.gameOver = TRUE, !.winner = player]
                          ELSE [g1 EXCEPT !.currentPlayer = Other(game.currentPlayer)]
            IN [game   |-> g2,
                result |-> [success |-> TRUE, reason |-> Valid,
                            gameOver |-> g2.gameOver, winner |-> g2.winner,
                            currentPlayer |-> g2.currentPlayer],
                winResult |-> win]

\* Game.makeMove: the game object after the call, the returned result and
\* the checkWin result computed on the way.
makeMove(game, row, col, player) ==
    LET reason == isValidMove(game, row, col, player)
    IN IF reason # Valid
       THEN RejectMove(game, reason)
       ELSE LET board1 == PlaceStone(game.board, row, col, player)
                count1 == game.moveCount + 1
                hist1  == Append(game.moveHistory,
                                 [row |-> row, col |-> col, player |-> player,
                                  moveNumber |-> count1])
                win    == checkWin(board1, row, col, player)
                g1     == [game EXCEPT !.board = board1, !.moveCount = count1,
                                       !.moveHistory = hist1]
                g2     == IF win.won
                          THEN [g1 EXCEPT !.gameOver = TRUE, !.winner = player]
                          ELSE IF count1 >= BoardSize * BoardSize
                          THEN [g1 EXCEPT !.gameOver = TRUE, !.winner = Draw]
                          ELSE [g1 EXCEPT !.currentPlayer = Other(game.currentPlayer)]
            IN [game   |-> g2,
                result |-> [success |-> TRUE, reason |-> Valid,
                            gameOver |-> g2.gameOver, winner |-> g2.winner,
                            currentPlayer |-> g2.currentPlayer],
                winResult |-> win]

\* new Game(player1, player2, player1Name, player2Name, isAIGame)
NewGame(id, player1, player2, player1Name, player2Name, isAIGame) ==
    [id |-> id, player1 |-> player1, player2 |-> player2,
     player1Name |-> player1Name, player2Name |-> player2Name,
     isAIGame |-> isAIGame, board |-> initializeBoard,
     currentPlayer |-> Black, winner |-> Null, gameOver |-> FALSE,
     moveCount |-> 0, moveHistory |-> <<>>, disconnectTimeout |-> NoTimer]

\* Mutant: the outcome of the finished game survives the reset.
MutResetGame(game) ==
    [game EXCEPT !.board = initializeBoard, !.currentPlayer = Black,
                 !.moveCount = 0, !.moveHistory = <<>>]

\* Mutant: the reset forgets the outcome and the count but keeps the stones.
MutResetKeepsBoard(game) ==
    [game EXCEPT !.currentPlayer = Black, !.winner = Null, !.gameOver = FALSE,
                 !.moveCount = 0, !.moveHistory = <<>>]

\* Mutant: the reset keeps the log of the moves.
MutResetKeepsLog(game) ==
    [game EXCEPT !.board = initializeBoard, !.currentPlayer = Black,
                 !.winner = Null, !.gameOver = FALSE, !.moveCount = 0]

\* Mutant: the reset leaves the turn with the colour that had it.
MutResetKeepsTurn(game) ==
    [game EXCEPT !.board = initializeBoard, !.winner = Null, !.gameOver = FALSE,
                 !.moveCount = 0, !.moveHistory = <<>>]

\* The assignments shared by requestStartOver, respondToNewGame and
\* resetAIGame.
ResetGame(game) ==
    [game EXCEPT !.board = initializeBoard, !.currentPlayer = Black,
                 !.winner = Null, !.gameOver = FALSE, !.moveCount = 0,
                 !.moveHistory = <<>>]

\* ------------------------------------------------------------------------
\* AIPlayer
\* ------------------------------------------------------------------------
Cells == Rows \X Rows

Abs(x) == IF x < 0 THEN -x ELSE x

\* Position of a cell in the row-major scan of getEmptyPositions.
ScanIndex(p) == p[1] * BoardSize + p[2]

\* Mutant: every cell counts as empty.
MutGetEmptyPositions(board) == Cells

getEmptyPositions(board) == {p \in Cells : board[p[1]][p[2]] = Null}

\* Mutant: the scan runs backwards.
MutFirstInScan(S) ==
    IF S = {} THEN Null
    ELSE CHOOSE p \in S : \A q \in S : ScanIndex(p) >= ScanIndex(q)

\* The first element of a set of cells in scan order; Null for none.
FirstInScan(S) ==
    IF S = {} THEN Null
    ELSE CHOOSE p \in S : \A q \in S : ScanIndex(p) <= ScanIndex(q)

checkWinAtPosition(board, row, col, player) ==
    \E d \in 1 .. Len(directions) :
        1 + CountRun(board, row, col, directions[d][1], directions[d][2],
                     player, WinLength)
          + CountRun(board, row, col, -directions[d][1], -directions[d][2],
                     player, WinLength) >= WinLength

\* Mutant: the test is made for the other colour.
MutWinsAt(board, player, p) ==
    checkWinAtPosition(PlaceStone(board, p[1], p[2], player), p[1], p[2],
                       Other(player))

\* The body of findWinningMove's loop: place the stone, test, remove it.
WinsAt(board, player, p) ==
    checkWinAtPosition(PlaceStone(board, p[1], p[2], player), p[1], p[2], player)

findWinningMove(board, player, emptyPositions) ==
    FirstInScan({p \in emptyPositions : WinsAt(board, player, p)})

\* The positions findWinningMove's loop visits: all of them, or those up to
\* the one it returns.
Visited(board, player, emptyPositions) ==
    LET found == findWinningMove(board, player, emptyPositions)
    IN IF found = Null THEN emptyPositions
       ELSE {p \in emptyPositions : ScanIndex(p) <= ScanIndex(found)}

\* Mutant: the stone that wins stays on the board.
MutBoardAfterScan(board, player, emptyPositions) ==
    LET found == findWinningMove(board, player, emptyPositions)
        seen  == Visited(board, player, emptyPositions)
    IN [r \in Rows |-> [c \in Rows |->
           IF <<r, c>> = found THEN player
           ELSE IF <<r, c>> \in seen THEN Null
           ELSE board[r][c]]]

\* The board after findWinningMove: "board[pos.row][pos.col] = null" has
\* run for every position visited, before the return inside the loop and
\* at the end of each other iteration.
BoardAfterScan(board, player, emptyPositions) ==
    LET seen == Visited(board, player, emptyPositions)
    IN [r \in Rows |-> [c \in Rows |->
           IF <<r, c>> \in seen THEN Null ELSE board[r][c]]]

ThreatAt(board, player, p) ==
    \E d \in 1 .. Len(directions) :
        1 + CountRun(board, p[1], p[2], directions[d][1], directions[d][2],
                     player, ThreatLength)
          + CountRun(board, p[1], p[2], -directions[d][1], -directions[d][2],
                     player, ThreatLength) >= ThreatLength

findThreatMove(board, player, emptyPositions) ==
    FirstInScan({p \in emptyPositions : ThreatAt(board, player, p)})

\* The cells at Manhattan distance <= 3 of a cell, as offsets: the only
\* cells of the double loop over the board that pass "distance <= 3".
NearOffsets ==
    {o \in (-ProximityRange .. ProximityRange) \X (-ProximityRange .. ProximityRange) :
        Abs(o[1]) + Abs(o[2]) <= ProximityRange}

RECURSIVE SumOver(_, _, _, _)
SumOver(S, board, p, aiColor) ==
    IF S = {} THEN 0
    ELSE LET o == CHOOSE x \in S : TRUE
             r == p[1] + o[1]
             c == p[2] + o[2]
             v == IF InBounds(r, c) /\ board[r][c] # Null
                  THEN ((ProximityRange + 1) - (Abs(o[1]) + Abs(o[2])))
                       * (IF board[r][c] = aiColor THEN 2 ELSE 1)
                  ELSE 0
         IN v + SumOver(S \ {o}, board, p, aiColor)

\* Twice the score of findStrategicMove (the centre bonus is weighted 0.5).
Score2(board, aiColor, p) ==
    2 * SumOver(NearOffsets, board, p, aiColor)
    + (CenterWeight - (Abs(p[1] - BoardCenter) + Abs(p[2] - BoardCenter)))

\* Mutant: the scoring finds no cell.
MutNoStrategicMove(board, aiColor, humanColor, emptyPositions) == Null

\* scoredMoves.sort((a, b) => b.score - a.score)[0]: the sort is stable, so
\* the first cell in scan order among those of the highest score.
findStrategicMove(board, aiColor, humanColor, emptyPositions) ==
    LET score  == [p \in emptyPositions |-> Score2(board, aiColor, p)]
        scores == {score[p] : p \in emptyPositions}
        top    == CHOOSE v \in scores : \A w \in scores : w <= v
    IN FirstInScan({p \in emptyPositions : score[p] = top})

\* getRandomMove: any of the empty positions.
getRandomMove(emptyPositions) == emptyPositions

\* Mutant: the opponent's win is blocked before the AI's own win is looked for.
MutBlockBeforeWin(board, aiColor, humanColor) ==
    LET emptyPositions == getEmptyPositions(board)
        winningMove    == findWinningMove(board, aiColor, emptyPositions)
        blockingMove   == findWinningMove(board, humanColor, emptyPositions)
        threatMove     == findThreatMove(board, humanColor, emptyPositions)
        opportunity    == findThreatMove(board, aiColor, emptyPositions)
        strategicMove  == findStrategicMove(board, aiColor, humanColor, emptyPositions)
    IN IF emptyPositions = {} THEN {}
       ELSE IF blockingMove # Null THEN {blockingMove}
       ELSE IF winningMove # Null THEN {winningMove}
       ELSE IF threatMove # Null THEN {threatMove}
       ELSE IF opportunity # Null THEN {opportunity}
       ELSE IF strategicMove # Null THEN {strategicMove}
       ELSE getRandomMove(emptyPositions)

\* getBestMove: the set of cells the call can return (one cell, or several
\* when the random fallback decides); the empty set stands for null.
getBestMove(board, aiColor, humanColor) ==
    LET emptyPositions == getEmptyPositions(board)
        winningMove    == findWinningMove(board, aiColor, emptyPositions)
        blockingMove   == findWinningMove(board, humanColor, emptyPositions)
        threatMove     == findThreatMove(board, humanColor, emptyPositions)
        opportunity    == findThreatMove(board, aiColor, emptyPositions)
        strategicMove  == findStrategicMove(board, aiColor, humanColor, emptyPositions)
    IN IF emptyPositions = {} THEN {}
       ELSE IF winningMove # Null THEN {winningMove}
       ELSE IF blockingMove # Null THEN {blockingMove}
       ELSE IF threatMove # Null THEN {threatMove}
       ELSE IF opportunity # Null THEN {opportunity}
       ELSE IF strategicMove # Null THEN {strategicMove}
       ELSE getRandomMove(emptyPositions)

\* The board array after getBestMove: the two findWinningMove calls are the
\* only code of AIPlayer that writes to it.
BoardAfterBestMove(board, aiColor, humanColor) ==
    LET emptyPositions == getEmptyPositions(board)
        board1 == BoardAfterScan(board, aiColor, emptyPositions)
    IN IF emptyPositions = {} THEN board
       ELSE IF findWinningMove(board, aiColor, emptyPositions) # Null THEN board1
       ELSE BoardAfterScan(board1, humanColor, emptyPositions)

\* ------------------------------------------------------------------------
\* Server state
\* ------------------------------------------------------------------------
VARIABLES
    nextSocketId,       \* id the next connecting socket gets (ids start at 1)
    connected,          \* sockets whose socket.connected is true
    rooms,              \* <<socket, gameId>>: the socket joined the game's room
    connectedPlayers,   \* Map socketId -> playerName
    playerNames,        \* Set of names in use
    playerGameMap,      \* Map playerName -> gameId
    waitingPlayers,     \* array of waiting sockets
    games,              \* Map gameId -> Game
    orphans,            \* Game objects deleted from games that a pending
                        \* timer callback or AI task still references
    nextGameId,         \* id the next Game gets (Game ids are unique)
    startOverRequests,  \* Map gameId -> Set of socket ids
    timers,             \* pending disconnect timeouts
    aiTasks,            \* pending AI work: the 500 ms delay, then the think()
    lastOp,             \* the handler or callback that ran last
    lastEvents,         \* the events it emitted
    dropInfo,           \* history: per name, the last transport drop
    newGameAsked,       \* history: <<gameId, slot>> of the requestNewGame
                        \* proposals that have not been answered
    probe               \* input and result of a direct call of a pure function

vars == <<nextSocketId, connected, rooms, connectedPlayers, playerNames,
          playerGameMap, waitingPlayers, games, orphans, nextGameId,
          startOverRequests, timers, aiTasks, lastOp, lastEvents, dropInfo,
          newGameAsked, probe>>

serverVars == <<nextSocketId, connected, rooms, connectedPlayers, playerNames,
                playerGameMap, waitingPlayers, games, orphans, nextGameId,
                startOverRequests, timers, aiTasks, lastOp, lastEvents,
                dropInfo, newGameAsked>>

EmptyMap == [x \in {} |-> Null]
Put(f, k, v) == [x \in (DOMAIN f) \cup {k} |-> IF x = k THEN v ELSE f[x]]
Drop(f, K) == [x \in (DOMAIN f) \ K |-> f[x]]
Has(f, k) == k \in DOMAIN f
Min(a, b) == IF a < b THEN a ELSE b

\* History: the drops of the names S are marked as overtaken by an event
\* that ends the game on purpose or changes its board.
Excuse(info, S) ==
    [n \in DOMAIN info |-> IF n \in S THEN [info[n] EXCEPT !.excused = TRUE]
                           ELSE info[n]]
\* The names whose recorded drop was from game g.
DroppedFrom(info, g) == {n \in DOMAIN info : info[n].gameId = g}

\* Usernames are strings of characters; the server tests their length and
\* their characters.
Letters == {"A", "B", "C", "I", "P", "a", "b", "e", "l", "n", "o", "r", "y"}
AllowedChars == Letters \cup {"0", "1", "_", " ", "-"}
Ann == <<"A", "n", "n">>
Bob == <<"B", "o", "b">>
AIPlayerName == <<"A", "I", " ", "P", "l", "a", "y", "e", "r">>
Unknown == <<"U", "n", "k", "n", "o", "w", "n">>
NoName == <<>>

NoWin == [won |-> FALSE, winningStones |-> <<>>]
\* was: for a restart request, the move count and the gameOver flag the
\* game had when the request arrived.
NoWas == [moveCount |-> 0, gameOver |-> FALSE]
Op(op, socket, game, win) ==
    [op |-> op, socket |-> socket, game |-> game, win |-> win, was |-> NoWas]
Ev(to, event, game, a, b, c) ==
    [to |-> to, event |-> event, game |-> game, a |-> a, b |-> b, c |-> c]

\* socket.emit(...): a disconnected socket's packets are discarded.
Emit(live, to, event, game, a, b, c) ==
    IF to \in live THEN {Ev(to, event, game, a, b, c)} ELSE {}

RoomOf(rms, gameId) == {s \in 1 .. (nextSocketId - 1) : <<s, gameId>> \in rms}

\* broadcastToGame: io.to(gameId).emit(event, data)
broadcastToGame(rms, gameId, event, a, b, c) ==
    {Ev(s, event, gameId, a, b, c) : s \in RoomOf(rms, gameId)}

\* A Game object by id, whether still in the games Map or only referenced.
Obj(gameId) == IF Has(games, gameId) THEN games[gameId] ELSE orphans[gameId]

\* Objects no longer in games stay only while a closure references them.
Referenced(tms, tasks) ==
    {t.gameId : t \in tms} \cup {tasks[i].gameId : i \in DOMAIN tasks}
Collect(gms, orph, tms, tasks) ==
    [id \in {x \in DOMAIN orph : x \in Referenced(tms, tasks) /\ ~Has(gms, x)}
        |-> orph[id]]

NoProbe == [kind |-> "none"]

ServerInit ==
    /\ nextSocketId = 1
    /\ connected = {}
    /\ rooms = {}
    /\ connectedPlayers = EmptyMap
    /\ playerNames = {}
    /\ playerGameMap = EmptyMap
    /\ waitingPlayers = <<>>
    /\ games = EmptyMap
    /\ orphans = EmptyMap
    /\ nextGameId = 1
    /\ startOverRequests = EmptyMap
    /\ timers = {}
    /\ aiTasks = <<>>
    /\ lastOp = Op("start", NoSocket, 0, NoWin)
    /\ lastEvents = {}
    /\ dropInfo = EmptyMap
    /\ newGameAsked = {}

\* ------------------------------------------------------------------------
\* Connections and identity
\* ------------------------------------------------------------------------
\* io.on('connection'): a new socket, with an id never used before.
Connect(maxSockets) ==
    /\ nextSocketId <= maxSockets
    /\ connected' = connected \cup {nextSocketId}
    /\ nextSocketId' = nextSocketId + 1
    /\ lastOp' = Op("connection", nextSocketId, 0, NoWin)
    /\ lastEvents' = {}
    /\ UNCHANGED <<rooms, connectedPlayers, playerNames, playerGameMap,
                   waitingPlayers, games, orphans, nextGameId,
                   startOverRequests, timers, aiTasks, dropInfo,
                   newGameAsked, probe>>

HasLiveGame(name) == Has(playerGameMap, name) /\ Has(games, playerGameMap[name])

\* Mutant: the join handlers do not look for an existing game.
MutAlreadyInGame(playerName) == FALSE

\* "if (existingGameId && games.has(existingGameId))" of joinGame and
\* joinAIGame
AlreadyInGame(playerName) == HasLiveGame(playerName)

\* socket.on("setUsername")
setUsername(socket, username) ==
    LET tooShort == Len(username) < 2 \/ Len(username) > 20
        taken    == username \in playerNames
        existingPlayerConnected ==
            \E sid \in DOMAIN connectedPlayers :
                connectedPlayers[sid] = username /\ sid \in connected
        badChars == \E i \in 1 .. Len(username) : username[i] \notin AllowedChars
        names1   == IF taken /\ ~HasLiveGame(username) /\ ~existingPlayerConnected
                    THEN playerNames \ {username} ELSE playerNames
        reject(msg) ==
            /\ lastEvents' = Emit(connected, socket, "usernameRejected", 0, msg,
                                  NoName, NoName)
            /\ UNCHANGED connectedPlayers
    IN /\ socket \in connected
       /\ lastOp' = Op("setUsername", socket, 0, NoWin)
       /\ IF username = NoName
          THEN reject("Invalid username format") /\ UNCHANGED playerNames
          ELSE IF tooShort
          THEN reject("Username must be 2-20 characters") /\ UNCHANGED playerNames
          ELSE IF taken /\ ~HasLiveGame(username) /\ existingPlayerConnected
          THEN reject("Username already taken, please choose another")
               /\ UNCHANGED playerNames
          ELSE IF badChars
          THEN reject("Username can only contain letters, numbers, spaces, hyphens, and underscores")
               /\ playerNames' = names1
          ELSE /\ connectedPlayers' = Put(connectedPlayers, socket, username)
               /\ playerNames' = names1 \cup {username}
               /\ lastEvents' =
                     Emit(connected, socket, "usernameAccepted",
                          IF HasLiveGame(username) THEN playerGameMap[username] ELSE 0,
                          IF HasLiveGame(username) THEN "hasExistingGame" ELSE "new",
                          username, NoName)
       /\ UNCHANGED <<nextSocketId, connected, rooms, playerGameMap,
                      waitingPlayers, games, orphans, nextGameId,
                      startOverRequests, timers, aiTasks, dropInfo,
                      newGameAsked, probe>>

\* The reply of every handler that starts with
\* "if (!connectedPlayers.has(socket.id))".
usernameRequired(socket, op, gameId) ==
    /\ lastOp' = Op(op, socket, gameId, NoWin)
    /\ lastEvents' = Emit(connected, socket, "usernameRequired", 0,
                          "Please set your username first", NoName, NoName)
    /\ UNCHANGED <<nextSocketId, connected, rooms, connectedPlayers, playerNames,
                   playerGameMap, waitingPlayers, games, orphans, nextGameId,
                   startOverRequests, timers, aiTasks, dropInfo,
                   newGameAsked, probe>>

\* A handler that refuses with one event to the sender and changes nothing.
Refuse(socket, op, gameId, event, msg) ==
    /\ lastOp' = Op(op, socket, gameId, NoWin)
    /\ lastEvents' = Emit(connected, socket, event, gameId, msg, NoName, NoName)
    /\ UNCHANGED <<nextSocketId, connected, rooms, connectedPlayers, playerNames,
                   playerGameMap, waitingPlayers, games, orphans, nextGameId,
                   startOverRequests, timers, aiTasks, dropInfo,
                   newGameAsked, probe>>

\* A handler that returns without emitting and changes nothing.
Ignore(socket, op, gameId) ==
    /\ lastOp' = Op(op, socket, gameId, NoWin)
    /\ lastEvents' = {}
    /\ UNCHANGED <<nextSocketId, connected, rooms, connectedPlayers, playerNames,
                   playerGameMap, waitingPlayers, games, orphans, nextGameId,
                   startOverRequests, timers, aiTasks, dropInfo,
                   newGameAsked, probe>>

\* ------------------------------------------------------------------------
\* Matchmaking
\* ------------------------------------------------------------------------
\* Mutant: the newcomer takes the first slot.
MutPairing(queue, socket) == [player1 |-> socket, player2 |-> Head(queue)]

\* "const player1 = waitingPlayers.shift(); const player2 = socket;"
Pairing(queue, socket) == [player1 |-> Head(queue), player2 |-> socket]

\* socket.on("joinGame")
joinGame(socket, maxGames) ==
    /\ socket \in connected
    /\ IF ~Has(connectedPlayers, socket)
       THEN usernameRequired(socket, "joinGame", 0)
       ELSE IF AlreadyInGame(connectedPlayers[socket])
       THEN Ignore(socket, "joinGame", 0)
       ELSE IF Len(waitingPlayers) = 0
       THEN /\ waitingPlayers' = Append(waitingPlayers, socket)
            /\ lastOp' = Op("joinGame", socket, 0, NoWin)
            /\ lastEvents' = Emit(connected, socket, "waitingForOpponent", 0,
                                  "Waiting for another player to join...",
                                  NoName, NoName)
            /\ UNCHANGED <<nextSocketId, connected, rooms, connectedPlayers,
                           playerNames, playerGameMap, games, orphans,
                           nextGameId, startOverRequests, timers, aiTasks,
                           dropInfo,
                           newGameAsked, probe>>
       ELSE LET player1 == Pairing(waitingPlayers, socket).player1
                player2 == Pairing(waitingPlayers, socket).player2
                player1Name == connectedPlayers[player1]
                player2Name == connectedPlayers[player2]
                id    == nextGameId
                game  == NewGame(id, player1, player2, player1Name, player2Name, FALSE)
                rooms1 == rooms \cup {<<player1, id>>, <<player2, id>>}
            IN /\ nextGameId <= maxGames
               /\ waitingPlayers' = Tail(waitingPlayers)
               /\ games' = Put(games, id, game)
               /\ nextGameId' = nextGameId + 1
               /\ rooms' = rooms1
               /\ playerGameMap' = Put(Put(playerGameMap, player1Name, id),
                                       player2Name, id)
               /\ lastOp' = Op("joinGame", socket, id, NoWin)
               /\ lastEvents' =
                     Emit(connected, player1, "gameStarted", id, Black,
                          player1Name, player2Name)
                     \cup Emit(connected, player2, "gameStarted", id, White,
                               player2Name, player1Name)
                     \cup broadcastToGame(rooms1, id, "gameUpdate", Null,
                                          NoName, NoName)
               /\ UNCHANGED <<nextSocketId, connected, connectedPlayers,
                              playerNames, orphans, startOverRequests, timers,
                              aiTasks, dropInfo,
                              newGameAsked, probe>>

\* Mutant: the AI is given the black slot and the requester the white one.
MutAIGameFor(id, socket, playerName) ==
    NewGame(id, NoSocket, socket, AIPlayerName, playerName, TRUE)

\* "new Game(socket, null, playerName, 'AI Player', true)"
AIGameFor(id, socket, playerName) ==
    NewGame(id, socket, NoSocket, playerName, AIPlayerName, TRUE)

\* socket.on("joinAIGame")
joinAIGame(socket, maxGames) ==
    /\ socket \in connected
    /\ IF ~Has(connectedPlayers, socket)
       THEN usernameRequired(socket, "joinAIGame", 0)
       ELSE IF AlreadyInGame(connectedPlayers[socket])
       THEN Ignore(socket, "joinAIGame", 0)
       ELSE LET playerName == connectedPlayers[socket]
                id   == nextGameId
                game == AIGameFor(id, socket, playerName)
            IN /\ nextGameId <= maxGames
               /\ games' = Put(games, id, game)
               /\ nextGameId' = nextGameId + 1
               /\ rooms' = rooms \cup {<<socket, id>>}
               /\ playerGameMap' = Put(playerGameMap, playerName, id)
               /\ lastOp' = Op("joinAIGame", socket, id, NoWin)
               /\ lastEvents' =
                     Emit(connected, socket, "gameStarted", id, Black,
                          playerName, AIPlayerName)
                     \cup Emit(connected, socket, "gameUpdate", id, Null,
                               NoName, NoName)
               /\ UNCHANGED <<nextSocketId, connected, connectedPlayers,
                              playerNames, waitingPlayers, orphans,
                              startOverRequests, timers, aiTasks, dropInfo,
                              newGameAsked, probe>>

\* ------------------------------------------------------------------------
\* Moves
\* ------------------------------------------------------------------------
NameOfWinner(game, winner) ==
    IF winner = Black THEN game.player1Name ELSE game.player2Name
NameOfLoser(game, winner) ==
    IF winner = Black THEN game.player2Name ELSE game.player1Name

AITask(gameId, phase, remaining) ==
    [gameId |-> gameId, phase |-> phase, remaining |-> remaining]

\* Mutant: the AI does not answer the first move of a game.
MutAIMoveDue(game, res) ==
    res.success /\ game.isAIGame /\ ~res.gameOver /\ game.moveCount > 0

\* "else if (game.isAIGame && !moveResult.gameOver)" inside
\* "if (moveResult.success)": the move calls for an answer of the AI; game
\* is the game as it was before the move.
AIMoveDue(game, res) == res.success /\ game.isAIGame /\ ~res.gameOver

\* socket.on('makeMove'); gameId 0 stands for a missing game id.
makeMoveHandler(socket, gameId, row, col) ==
    /\ socket \in connected
    /\ IF ~Has(connectedPlayers, socket)
       THEN usernameRequired(socket, "makeMove", gameId)
       ELSE IF gameId = 0
       THEN Refuse(socket, "makeMove", gameId, "moveError", "Invalid move data")
       ELSE IF ~InBounds(row, col)
       THEN Refuse(socket, "makeMove", gameId, "moveError", OutOfBounds)
       ELSE IF ~Has(games, gameId)
       THEN Refuse(socket, "makeMove", gameId, "moveError", "Game not found")
       ELSE LET game      == games[gameId]
                isPlayer1 == game.player1 = socket
                isPlayer2 == game.player2 = socket
                player    == IF isPlayer1 THEN Black ELSE White
                done      == makeMove(game, row, col, player)
                res       == done.result
                update    == IF game.isAIGame
                             THEN Emit(connected, socket, "gameUpdate", gameId,
                                       Null, NoName, NoName)
                             ELSE broadcastToGame(rooms, gameId, "gameUpdate",
                                                  Null, NoName, NoName)
                ended     == IF ~res.gameOver THEN {}
                             ELSE IF game.isAIGame
                             THEN Emit(connected, socket, "gameEnded", gameId,
                                       res.winner, NameOfWinner(game, res.winner),
                                       NameOfLoser(game, res.winner))
                             ELSE broadcastToGame(rooms, gameId, "gameEnded",
                                       res.winner, NameOfWinner(game, res.winner),
                                       NameOfLoser(game, res.winner))
            IN IF ~isPlayer1 /\ ~isPlayer2
               THEN Refuse(socket, "makeMove", gameId, "moveError",
                           "You are not part of this game")
               ELSE /\ games' = [games EXCEPT ![gameId] = done.game]
                    /\ aiTasks' = IF AIMoveDue(game, res)
                                  THEN Append(aiTasks,
                                              AITask(gameId, "delay", AIMoveDelay))
                                  ELSE aiTasks
                    /\ lastOp' = Op("makeMove", socket, gameId, done.winResult)
                    /\ lastEvents' =
                          IF ~res.success
                          THEN Emit(connected, socket, "moveError", gameId,
                                    res.reason, NoName, NoName)
                          ELSE update
                               \cup Emit(connected, socket, "moveConfirmed", gameId,
                                         player, NoName, NoName)
                               \cup ended
                    /\ dropInfo' = IF res.success
                                   THEN Excuse(dropInfo, DroppedFrom(dropInfo, gameId))
                                   ELSE dropInfo
                    /\ UNCHANGED <<nextSocketId, connected, rooms,
                                   connectedPlayers, playerNames, playerGameMap,
                                   waitingPlayers, orphans, nextGameId,
                                   startOverRequests, timers,
                                   newGameAsked, probe>>

\* ------------------------------------------------------------------------
\* Restart and new game
\* ------------------------------------------------------------------------
\* Mutant: one request is enough in every game.
MutRestartAgreed(requests, game) == Cardinality(requests) >= 1

\* Mutant: a game against the AI waits for a second request as well.
MutRestartNeedsTwo(requests, game) == Cardinality(requests) = 2

\* "if (requests.size === 2 || game.isAIGame)"
RestartAgreed(requests, game) == Cardinality(requests) = 2 \/ game.isAIGame

\* socket.on('requestStartOver')
requestStartOver(socket, gameId) ==
    /\ socket \in connected
    /\ IF ~Has(connectedPlayers, socket)
       THEN usernameRequired(socket, "requestStartOver", gameId)
       ELSE IF gameId = 0
       THEN Refuse(socket, "requestStartOver", gameId, "startOverError",
                   "Invalid game ID")
       ELSE IF ~Has(games, gameId)
       THEN Refuse(socket, "requestStartOver", gameId, "startOverError",
                   "Game not found")
       ELSE LET game      == games[gameId]
                isPlayer1 == game.player1 = socket
                isPlayer2 == game.player2 = socket
                playerName == connectedPlayers[socket]
                old       == IF Has(startOverRequests, gameId)
                             THEN startOverRequests[gameId] ELSE {}
                requests  == old \cup {socket}
                otherPlayer == IF isPlayer1 THEN game.player2 ELSE game.player1
                asked     == IF game.isAIGame THEN {}
                             ELSE Emit(connected, otherPlayer, "startOverRequested",
                                       gameId, "wants to start over", playerName,
                                       NoName)
                agreed    == RestartAgreed(requests, game)
                game1     == ResetGame(game)
            IN IF ~isPlayer1 /\ ~isPlayer2
               THEN Refuse(socket, "requestStartOver", gameId, "startOverError",
                           "You are not part of this game")
               ELSE /\ startOverRequests' =
                          IF agreed THEN Drop(startOverRequests, {gameId})
                          ELSE Put(startOverRequests, gameId, requests)
                    /\ games' = IF agreed THEN [games EXCEPT ![gameId] = game1]
                                ELSE games
                    /\ lastOp' = [Op("requestStartOver", socket, gameId, NoWin)
                                     EXCEPT !.was = [moveCount |-> game.moveCount,
                                                     gameOver |-> game.gameOver]]
                    /\ lastEvents' =
                          asked
                          \cup (IF ~agreed THEN {}
                                ELSE IF game.isAIGame
                                THEN Emit(connected, game.player1, "gameRestarted",
                                          gameId, Null, NoName, NoName)
                                ELSE broadcastToGame(rooms, gameId, "gameRestarted",
                                                     Null, NoName, NoName))
                    /\ UNCHANGED <<nextSocketId, connected, rooms,
                                   connectedPlayers, playerNames, playerGameMap,
                                   waitingPlayers, orphans, nextGameId, timers,
                                   aiTasks, dropInfo,
                                   newGameAsked, probe>>

\* The slot of a game a socket holds, and the slot of its opponent: the
\* "isPlayer1" / "isPlayer2" tests of the new-game handlers.
SlotOf(game, socket) == IF game.player1 = socket THEN "player1" ELSE "player2"

OtherSlot(slot) == IF slot = "player1" THEN "player2" ELSE "player1"

\* socket.on('requestNewGame'). In an AI game player2 is null, the emit on it
\* throws and the catch block answers newGameError.
requestNewGame(socket, gameId) ==
    /\ socket \in connected
    /\ IF ~Has(connectedPlayers, socket)
       THEN usernameRequired(socket, "requestNewGame", gameId)
       ELSE IF gameId = 0
       THEN Refuse(socket, "requestNewGame", gameId, "newGameError", "Invalid game ID")
       ELSE IF ~Has(games, gameId)
       THEN Refuse(socket, "requestNewGame", gameId, "newGameError", "Game not found")
       ELSE LET game      == games[gameId]
                isPlayer1 == game.player1 = socket
                isPlayer2 == game.player2 = socket
                playerName == connectedPlayers[socket]
                otherPlayer == IF isPlayer1 THEN game.player2 ELSE game.player1
            IN IF ~isPlayer1 /\ ~isPlayer2
               THEN Refuse(socket, "requestNewGame", gameId, "newGameError",
                           "You are not part of this game")
               ELSE IF otherPlayer = NoSocket
               THEN Refuse(socket, "requestNewGame", gameId, "newGameError",
                           "Error processing new game request")
               ELSE /\ lastOp' = Op("requestNewGame", socket, gameId, NoWin)
                    /\ lastEvents' =
                          Emit(connected, otherPlayer, "newGameRequested", gameId,
                               "wants to start a new game", playerName, NoName)
                          \cup Emit(connected, socket, "newGameRequestSent", gameId,
                                    "Request sent", NoName, NoName)
                    /\ newGameAsked' = newGameAsked \cup {<<gameId, SlotOf(game, socket)>>}
                    /\ UNCHANGED <<nextSocketId, connected, rooms,
                                   connectedPlayers, playerNames, playerGameMap,
                                   waitingPlayers, games, orphans, nextGameId,
                                   startOverRequests, timers, aiTasks, dropInfo,
                                   probe>>

\* Mutant: the answer goes back to the socket that sent it.
MutOtherPlayer(game, socket) == socket

\* "const otherPlayer = isPlayer1 ? game.player2 : game.player1"
OtherPlayer(game, socket) ==
    IF game.player1 = socket THEN game.player2 ELSE game.player1

\* The record of a respondToNewGame that was carried out, with its answer.
OpAnswer(op, socket, game, accept) ==
    [op |-> op, socket |-> socket, game |-> game, win |-> NoWin, was |-> NoWas,
     accept |-> accept]

\* socket.on('respondToNewGame')
respondToNewGame(socket, gameId, accept) ==
    /\ socket \in connected
    /\ IF ~Has(connectedPlayers, socket)
       THEN usernameRequired(socket, "respondToNewGame", gameId)
       ELSE IF gameId = 0
       THEN Refuse(socket, "respondToNewGame", gameId, "newGameError",
                   "Invalid game ID")
       ELSE IF ~Has(games, gameId)
       THEN Refuse(socket, "respondToNewGame", gameId, "newGameError",
                   "Game not found")
       ELSE LET game      == games[gameId]
                isPlayer1 == game.player1 = socket
                isPlayer2 == game.player2 = socket
                playerName == connectedPlayers[socket]
                otherPlayer == OtherPlayer(game, socket)
            IN IF ~isPlayer1 /\ ~isPlayer2
               THEN Refuse(socket, "respondToNewGame", gameId, "newGameError",
                           "You are not part of this game")
               ELSE IF accept
               THEN /\ games' = [games EXCEPT ![gameId] = ResetGame(game)]
                    /\ lastOp' = OpAnswer("respondToNewGame", socket, gameId, accept)
                    /\ lastEvents' = broadcastToGame(rooms, gameId, "newGameStarted",
                                                     "New game started!", NoName,
                                                     NoName)
                    /\ newGameAsked' = {p \in newGameAsked : p[1] # gameId}
                    /\ UNCHANGED <<nextSocketId, connected, rooms,
                                   connectedPlayers, playerNames, playerGameMap,
                                   waitingPlayers, orphans, nextGameId,
                                   startOverRequests, timers, aiTasks, dropInfo,
                                   probe>>
               ELSE IF otherPlayer = NoSocket
               THEN Refuse(socket, "respondToNewGame", gameId, "newGameError",
                           "Error processing new game response")
               ELSE /\ lastOp' = OpAnswer("respondToNewGame", socket, gameId, accept)
                    /\ lastEvents' =
                          Emit(connected, otherPlayer, "newGameRejected", gameId,
                               "declined to start a new game", playerName, NoName)
                          \cup Emit(connected, socket, "newGameResponseSent", gameId,
                                    "You declined the new game request", NoName,
                                    NoName)
                    /\ newGameAsked' = newGameAsked \ {<<gameId, OtherSlot(SlotOf(game, socket))>>}
                    /\ UNCHANGED <<nextSocketId, connected, rooms,
                                   connectedPlayers, playerNames, playerGameMap,
                                   waitingPlayers, games, orphans, nextGameId,
                                   startOverRequests, timers, aiTasks, dropInfo,
                                   probe>>

\* socket.on('resetAIGame')
resetAIGame(socket, gameId) ==
    /\ socket \in connected
    /\ IF ~Has(connectedPlayers, socket)
       THEN usernameRequired(socket, "resetAIGame", gameId)
       ELSE IF gameId = 0
       THEN Refuse(socket, "resetAIGame", gameId, "resetError", "Invalid game ID")
       ELSE IF ~Has(games, gameId)
       THEN Refuse(socket, "resetAIGame", gameId, "resetError", "Game not found")
       ELSE IF ~games[gameId].isAIGame
       THEN Refuse(socket, "resetAIGame", gameId, "resetError", "Not an AI game")
       ELSE IF games[gameId].player1 # socket
       THEN Refuse(socket, "resetAIGame", gameId, "resetError",
                   "You are not part of this game")
       ELSE /\ games' = [games EXCEPT ![gameId] = ResetGame(games[gameId])]
            /\ lastOp' = Op("resetAIGame", socket, gameId, NoWin)
            /\ lastEvents' = Emit(connected, socket, "aiGameReset", gameId, Null,
                                  NoName, NoName)
            /\ UNCHANGED <<nextSocketId, connected, rooms, connectedPlayers,
                           playerNames, playerGameMap, waitingPlayers, orphans,
                           nextGameId, startOverRequests, timers, aiTasks,
                           dropInfo,
                           newGameAsked, probe>>

\* ------------------------------------------------------------------------
\* Leaving, quitting, dropping and reconnecting
\* ------------------------------------------------------------------------
RemoveAt(seq, i) == [k \in 1 .. (Len(seq) - 1) |-> IF k < i THEN seq[k] ELSE seq[k + 1]]

\* waitingPlayers.splice(waitingPlayers.indexOf(socket), 1)
RemoveWaiting(queue, socket) ==
    IF \E i \in 1 .. Len(queue) : queue[i] = socket
    THEN RemoveAt(queue, CHOOSE i \in 1 .. Len(queue) :
                            /\ queue[i] = socket
                            /\ \A j \in 1 .. (i - 1) : queue[j] # socket)
    ELSE queue

AllObjs == [id \in (DOMAIN games) \cup (DOMAIN orphans) |-> Obj(id)]

\* socket.on('leaveGame')
leaveGame(socket) ==
    /\ socket \in connected
    /\ IF ~Has(connectedPlayers, socket)
       THEN Ignore(socket, "leaveGame", 0)
       ELSE LET playerName == connectedPlayers[socket]
                inGame     == HasLiveGame(playerName)
                gameId     == IF inGame THEN playerGameMap[playerName] ELSE 0
                game       == games[gameId]
                otherPlayer == IF game.player1 = socket THEN game.player2
                               ELSE game.player1
                games1     == IF inGame THEN Drop(games, {gameId}) ELSE games
            IN /\ games' = games1
               /\ playerGameMap' =
                     IF inGame
                     THEN Drop(playerGameMap, {game.player1Name, game.player2Name})
                     ELSE playerGameMap
               /\ orphans' = Collect(games1, AllObjs, timers, aiTasks)
               /\ waitingPlayers' = RemoveWaiting(waitingPlayers, socket)
               /\ lastOp' = Op("leaveGame", socket, gameId, NoWin)
               /\ lastEvents' =
                     IF inGame /\ otherPlayer # NoSocket
                     THEN Emit(connected, otherPlayer, "opponentLeft", gameId,
                               "has left the game to start a new one", playerName,
                               NoName)
                     ELSE {}
               /\ dropInfo' = Excuse(dropInfo, {playerName})
               /\ UNCHANGED <<nextSocketId, connected, rooms, connectedPlayers,
                              playerNames, nextGameId, startOverRequests, timers,
                              aiTasks,
                              newGameAsked, probe>>

\* clearTimeout(game.disconnectTimeout): a timeout is known by the game it
\* was set for and the socket whose disconnect set it.
ClearTimeout(tms, game) ==
    {t \in tms : ~(t.gameId = game.id /\ t.socket = game.disconnectTimeout)}

\* Mutant: the reconnection leaves the pending timeout running.
MutCancelOnReconnect(tms, game) == tms

\* "if (game.disconnectTimeout) { clearTimeout(...) }" of reconnectToGame
CancelOnReconnect(tms, game) ==
    IF game.disconnectTimeout # NoTimer THEN ClearTimeout(tms, game) ELSE tms

\* socket.on('reconnectToGame')
reconnectToGame(socket) ==
    /\ socket \in connected
    /\ IF ~Has(connectedPlayers, socket)
       THEN usernameRequired(socket, "reconnectToGame", 0)
       ELSE LET playerName == connectedPlayers[socket]
                mapped     == Has(playerGameMap, playerName)
                gameId     == IF mapped THEN playerGameMap[playerName] ELSE 0
                game       == games[gameId]
                isPlayer1  == game.player1Name = playerName
                isPlayer2  == game.player2Name = playerName
                game1      == [IF isPlayer1
                               THEN [game EXCEPT !.player1 = socket]
                               ELSE [game EXCEPT !.player2 = socket]
                                 EXCEPT !.disconnectTimeout = NoTimer]
                fail(msg)  ==
                    /\ lastOp' = Op("reconnectToGame", socket, gameId, NoWin)
                    /\ lastEvents' = Emit(connected, socket, "reconnectError",
                                          gameId, msg, NoName, NoName)
                    /\ dropInfo' = Drop(dropInfo, {playerName})
                    /\ UNCHANGED <<nextSocketId, connected, rooms,
                                   connectedPlayers, playerNames, waitingPlayers,
                                   games, orphans, nextGameId, startOverRequests,
                                   timers, aiTasks,
                                   newGameAsked, probe>>
            IN IF ~mapped
               THEN fail("No active game found for this player")
                    /\ UNCHANGED playerGameMap
               ELSE IF ~Has(games, gameId)
               THEN fail("Game no longer exists")
                    /\ playerGameMap' = Drop(playerGameMap, {playerName})
               ELSE IF ~isPlayer1 /\ ~isPlayer2
               THEN fail("You are not part of this game")
                    /\ UNCHANGED playerGameMap
               ELSE /\ rooms' = rooms \cup {<<socket, gameId>>}
                    /\ games' = [games EXCEPT ![gameId] = game1]
                    /\ timers' = CancelOnReconnect(timers, game)
                    /\ orphans' = Collect(games, orphans,
                                          CancelOnReconnect(timers, game), aiTasks)
                    /\ dropInfo' = Drop(dropInfo, {playerName})
                    /\ lastOp' = Op("reconnectToGame", socket, gameId, NoWin)
                    /\ lastEvents' =
                          Emit(connected, socket, "reconnectedToGame", gameId,
                               IF isPlayer1 THEN Black ELSE White, playerName,
                               IF isPlayer1 THEN game.player2Name
                               ELSE game.player1Name)
                    /\ UNCHANGED <<nextSocketId, connected, connectedPlayers,
                                   playerNames, playerGameMap, waitingPlayers,
                                   nextGameId, startOverRequests, aiTasks,
                                   newGameAsked, probe>>

\* Mutant: the quit leaves the game in the games Map.
MutQuitGame(gms, gameId) == gms

\* "games.delete(gameId)" of playerDisconnect
QuitGame(gms, gameId) == Drop(gms, {gameId})

\* socket.on('playerDisconnect'): gameId and playerName are what the client
\* sent; the handler does not look at connectedPlayers.
playerDisconnect(socket, gameId, playerName) ==
    /\ socket \in connected
    /\ IF gameId = 0 \/ playerName = NoName
       THEN Ignore(socket, "playerDisconnect", gameId)
       ELSE IF ~Has(games, gameId)
       THEN Ignore(socket, "playerDisconnect", gameId)
       ELSE LET game      == games[gameId]
                isPlayer1 == game.player1Name = playerName
                isPlayer2 == game.player2Name = playerName
                otherPlayer == IF isPlayer1 THEN game.player2 ELSE game.player1
                games1    == QuitGame(games, gameId)
            IN IF ~isPlayer1 /\ ~isPlayer2
               THEN Ignore(socket, "playerDisconnect", gameId)
               ELSE /\ games' = games1
                    /\ playerGameMap' =
                          Drop(playerGameMap, {game.player1Name, game.player2Name})
                    /\ orphans' = Collect(games1, AllObjs, timers, aiTasks)
                    /\ lastOp' = Op("playerDisconnect", socket, gameId, NoWin)
                    /\ lastEvents' =
                          IF otherPlayer # NoSocket
                          THEN Emit(connected, otherPlayer, "opponentDisconnected",
                                    gameId, "has left the game", playerName, NoName)
                          ELSE {}
                    /\ dropInfo' = Excuse(dropInfo, DroppedFrom(dropInfo, gameId))
                    /\ UNCHANGED <<nextSocketId, connected, rooms,
                                   connectedPlayers, playerNames, waitingPlayers,
                                   nextGameId, startOverRequests, timers, aiTasks,
                                   newGameAsked, probe>>

Timer(gameId, socket, otherPlayer, playerName, remaining) ==
    [gameId |-> gameId, socket |-> socket, otherPlayer |-> otherPlayer,
     playerName |-> playerName, remaining |-> remaining]

\* The games a socket holds a slot of (game.player1 === socket || ...).
SlotsOf(socket) ==
    {id \in DOMAIN games : games[id].player1 = socket \/ games[id].player2 = socket}

\* "const player = isPlayer1 ? 'black' : 'white'"
ColorOf(game, socket) == IF game.player1 = socket THEN Black ELSE White

\* The name of the slot a socket holds in a game.
SlotName(game, socket) ==
    IF game.player1 = socket THEN game.player1Name ELSE game.player2Name

\* History: which game and colour a dropped socket held, the board at that
\* moment, and the time since.
DropRecord(game, socket) ==
    [gameId |-> game.id, age |-> 0, board |-> game.board,
     color |-> IF game.player1 = socket THEN Black ELSE White,
     excused |-> FALSE]

\* socket.on('disconnect'): the transport of a socket dropped.
disconnect(socket) ==
    LET playerName == IF Has(connectedPlayers, socket)
                      THEN connectedPlayers[socket] ELSE Unknown
        hit     == SlotsOf(socket)
        reqs1   == [id \in {x \in DOMAIN startOverRequests :
                                startOverRequests[x] \ {socket} # {}}
                       |-> startOverRequests[id] \ {socket}]
        kept    == {t \in timers :
                       ~(t.gameId \in hit
                         /\ t.socket = games[t.gameId].disconnectTimeout)}
        armed   == {Timer(id, socket,
                          IF games[id].player1 = socket THEN games[id].player2
                          ELSE games[id].player1,
                          playerName, GracePeriod) : id \in hit}
        games1  == [id \in DOMAIN games |->
                       IF id \in hit
                       THEN [games[id] EXCEPT !.disconnectTimeout = socket]
                       ELSE games[id]]
        dropped == {SlotName(games[id], socket) : id \in hit}
    IN /\ socket \in connected
       /\ connected' = connected \ {socket}
       /\ rooms' = {r \in rooms : r[1] # socket}
       /\ startOverRequests' = reqs1
       /\ timers' = kept \cup armed
       /\ games' = games1
       /\ orphans' = Collect(games1, orphans, kept \cup armed, aiTasks)
       /\ waitingPlayers' = RemoveWaiting(waitingPlayers, socket)
       /\ dropInfo' =
             [n \in (DOMAIN dropInfo) \cup dropped |->
                 IF n \in dropped
                 THEN DropRecord(games[CHOOSE id \in hit :
                                          SlotName(games[id], socket) = n],
                                 socket)
                 ELSE dropInfo[n]]
       /\ lastOp' = Op("disconnect", socket, 0, NoWin)
       /\ lastEvents' = {}
       /\ UNCHANGED <<nextSocketId, connectedPlayers, playerNames,
                      playerGameMap, nextGameId, aiTasks,
                      newGameAsked, probe>>

\* The callback of the disconnect timeout, 10 s after the drop.
disconnectTimeoutFired(t) ==
    LET game    == Obj(t.gameId)
        known   == Has(connectedPlayers, t.socket)
        username == connectedPlayers[t.socket]
        conn1   == IF known THEN Drop(connectedPlayers, {t.socket})
                   ELSE connectedPlayers
        stillInUse == \E sid \in DOMAIN conn1 : conn1[sid] = username
        notify  == t.otherPlayer # NoSocket /\ t.otherPlayer \in connected
        game1   == IF notify
                   THEN [game EXCEPT !.gameOver = TRUE, !.winner = DisconnectWinner]
                   ELSE game
        games1  == Drop(games, {t.gameId})
        timers1 == timers \ {t}
    IN /\ t \in timers
       /\ t.remaining = 0
       /\ connectedPlayers' = conn1
       /\ playerNames' = IF known /\ ~stillInUse THEN playerNames \ {username}
                         ELSE playerNames
       /\ playerGameMap' = Drop(playerGameMap, {game.player1Name, game.player2Name})
       /\ games' = games1
       /\ timers' = timers1
       /\ orphans' = Collect(games1, Put(AllObjs, t.gameId, game1), timers1, aiTasks)
       /\ lastOp' = Op("disconnectTimeout", t.socket, t.gameId, NoWin)
       /\ lastEvents' =
             IF notify
             THEN Emit(connected, t.otherPlayer, "opponentDisconnected", t.gameId,
                       "has left the game", t.playerName, NoName)
             ELSE {}
       /\ UNCHANGED <<nextSocketId, connected, rooms, waitingPlayers, nextGameId,
                      startOverRequests, aiTasks, dropInfo,
                      newGameAsked, probe>>

\* ------------------------------------------------------------------------
\* The AI's turn
\* ------------------------------------------------------------------------
\* The callback of setTimeout(() => handleAIMove(gameId), 500): handleAIMove
\* up to its "await aiPlayer.think()".
handleAIMoveStart(i) ==
    LET task == aiTasks[i]
        go   == /\ Has(games, task.gameId)
                /\ games[task.gameId].isAIGame
                /\ ~games[task.gameId].gameOver
        tasks1 == IF go
                  THEN [aiTasks EXCEPT ![i] = AITask(task.gameId, "think", thinkingTime)]
                  ELSE RemoveAt(aiTasks, i)
    IN /\ i \in DOMAIN aiTasks
       /\ task.phase = "delay"
       /\ task.remaining = 0
       /\ aiTasks' = tasks1
       /\ orphans' = Collect(games, orphans, timers, tasks1)
       /\ lastOp' = Op("handleAIMove", NoSocket, task.gameId, NoWin)
       /\ lastEvents' = {}
       /\ UNCHANGED <<nextSocketId, connected, rooms, connectedPlayers,
                      playerNames, playerGameMap, waitingPlayers, games,
                      nextGameId, startOverRequests, timers, dropInfo,
                      newGameAsked, probe>>

\* Mutant: the AI plays the colour whose turn it is.
MutAIColorOf(game) == game.currentPlayer

\* "const aiPlayerColor = game.player2Name === 'AI Player' ? 'white' : 'black'"
AIColorOf(game) == IF game.player2Name = AIPlayerName THEN White ELSE Black

\* handleAIMove after the think() promise resolved: the game object is the
\* one fetched before the await, still in the games Map or not.
handleAIMoveFinish(i) ==
    LET task   == aiTasks[i]
        game0  == Obj(task.gameId)
        aiPlayerColor    == AIColorOf(game0)
        humanPlayerColor == Other(aiPlayerColor)
        moves  == getBestMove(game0.board, aiPlayerColor, humanPlayerColor)
        game   == [game0 EXCEPT !.board = BoardAfterBestMove(@, aiPlayerColor,
                                                            humanPlayerColor)]
        tasks1 == RemoveAt(aiTasks, i)
    IN /\ i \in DOMAIN aiTasks
       /\ task.phase = "think"
       /\ task.remaining = 0
       /\ aiTasks' = tasks1
       /\ IF moves = {}
          THEN /\ lastOp' = Op("aiMove", NoSocket, task.gameId, NoWin)
               /\ lastEvents' = {}
               /\ orphans' = Collect(games, orphans, timers, tasks1)
               /\ UNCHANGED games
          ELSE \E aiMove \in moves :
                 LET done == makeMove(game, aiMove[1], aiMove[2], aiPlayerColor)
                     res  == done.result
                 IN /\ games' = IF Has(games, task.gameId)
                                THEN [games EXCEPT ![task.gameId] = done.game]
                                ELSE games
                    /\ orphans' = Collect(games, Put(AllObjs, task.gameId, done.game),
                                          timers, tasks1)
                    /\ lastOp' = Op("aiMove", NoSocket, task.gameId, done.winResult)
                    /\ lastEvents' =
                          IF ~res.success THEN {}
                          ELSE Emit(connected, game.player1, "gameUpdate",
                                    task.gameId, Null, NoName, NoName)
                               \cup Emit(connected, game.player1, "moveConfirmed",
                                         task.gameId, aiPlayerColor, NoName, NoName)
                               \cup (IF ~res.gameOver THEN {}
                                     ELSE Emit(connected, game.player1, "gameEnded",
                                               task.gameId, res.winner,
                                               NameOfWinner(game, res.winner),
                                               NameOfLoser(game, res.winner)))
       /\ dropInfo' = IF moves = {} THEN dropInfo
                      ELSE Excuse(dropInfo, DroppedFrom(dropInfo, task.gameId))
       /\ UNCHANGED <<nextSocketId, connected, rooms, connectedPlayers,
                      playerNames, playerGameMap, waitingPlayers, nextGameId,
                      startOverRequests, timers,
                      newGameAsked, probe>>

\* ------------------------------------------------------------------------
\* Time
\* ------------------------------------------------------------------------
\* dt milliseconds pass. A timeout whose time has come runs before time
\* moves on. The age of a drop is counted up to just beyond the grace period.
Tick(dt) ==
    /\ dt > 0
    /\ \A t \in timers : t.remaining >= dt
    /\ \A i \in DOMAIN aiTasks : aiTasks[i].remaining >= dt
    /\ \/ timers # {}
       \/ aiTasks # <<>>
       \/ \E n \in DOMAIN dropInfo : dropInfo[n].age <= GracePeriod
    /\ timers' = {[t EXCEPT !.remaining = @ - dt] : t \in timers}
    /\ aiTasks' = [i \in DOMAIN aiTasks |->
                      [aiTasks[i] EXCEPT !.remaining = @ - dt]]
    /\ dropInfo' = [n \in DOMAIN dropInfo |->
                       [dropInfo[n] EXCEPT !.age = Min(@ + dt, GracePeriod + 1)]]
    /\ lastOp' = Op("tick", NoSocket, 0, NoWin)
    /\ lastEvents' = {}
    /\ UNCHANGED <<nextSocketId, connected, rooms, connectedPlayers, playerNames,
                   playerGameMap, waitingPlayers, games, orphans, nextGameId,
                   startOverRequests,
                   newGameAsked, probe>>

\* ------------------------------------------------------------------------
\* Bounds and inputs
\* ------------------------------------------------------------------------
MaxSockets == 3
MaxGames == 1
MaxLifePly == 1
MaxPlayPly == 11

Names == {Ann, Bob}
Sockets == 1 .. (nextSocketId - 1)
GameIds == 1 .. (nextGameId - 1)
\* Connected sockets that have no username yet, and those that have one.
Unnamed == {s \in connected : ~Has(connectedPlayers, s)}
Named == {s \in connected : Has(connectedPlayers, s)}

\* The cells the clients try as the next move of a game, by the number of
\* the move: two lines of play in which black or white completes a row of
\* five, or black a row of six, from the board's edge.
BookCells(ply) ==
    CASE ply = 1 -> {<<0, 0>>}
      [] ply = 2 -> {<<5, 0>>}
      [] ply = 3 -> {<<0, 1>>}
      [] ply = 4 -> {<<5, 1>>}
      [] ply = 5 -> {<<0, 2>>}
      [] ply = 6 -> {<<5, 2>>}
      [] ply = 7 -> {<<0, 3>>, <<0, 4>>}
      [] ply = 8 -> {<<5, 3>>}
      [] ply = 9 -> {<<0, 3>>, <<0, 4>>, <<0, 5>>}
      [] ply = 10 -> {<<5, 4>>, <<9, 9>>}
      [] ply = 11 -> {<<0, 3>>, <<0, 4>>}
      [] OTHER -> {<<18, 18>>}

\* Cells outside the board and a cell that is taken from the first move on.
StrayCells == {<<-1, 0>>, <<0, BoardSize>>, <<0, 0>>}

MoveInputs(gameId, maxPly) ==
    IF Has(games, gameId) /\ games[gameId].moveCount < maxPly
    THEN BookCells(games[gameId].moveCount + 1) \cup StrayCells
    ELSE StrayCells

\* ------------------------------------------------------------------------
\* Specification: two players' connections, matchmaking, drops, quits and
\* reconnections, with the first moves of a game
\* ------------------------------------------------------------------------
Init == ServerInit /\ probe = NoProbe

\* The name a client asks for: the first connection is Ann's, the second
\* Bob's, and the later ones are their new connections in turn.
NameFor(s) == IF s % 2 = 1 THEN Ann ELSE Bob

\* The sockets bound to a slot of a game.
SlotHolders(g) ==
    IF Has(games, g) THEN connected \cap {games[g].player1, games[g].player2}
    ELSE {}

\* The sockets in the queue.
Waiting == {waitingPlayers[i] : i \in DOMAIN waitingPlayers}

\* The clients of this specification ask to join only when they are not
\* waiting already, and send moves and votes only for their own game.
Next ==
    \/ Connect(MaxSockets)
    \/ \E s \in Unnamed : setUsername(s, NameFor(s))
    \/ \E s \in Named \ Waiting : joinGame(s, MaxGames)
    \/ \E g \in GameIds : \E s \in SlotHolders(g) :
          \E cell \in MoveInputs(g, MaxLifePly) :
             makeMoveHandler(s, g, cell[1], cell[2])
    \/ \E g \in GameIds : \E s \in SlotHolders(g) : requestStartOver(s, g)
    \/ \E s \in Named : leaveGame(s)
    \/ \E s \in Named : reconnectToGame(s)
    \/ \E g \in GameIds : \E s \in SlotHolders(g) :
          playerDisconnect(s, g, connectedPlayers[s])
    \/ \E s \in Sockets : disconnect(s)
    \/ \E t \in timers : disconnectTimeoutFired(t)
    \/ Tick(GracePeriod \div 2)

Spec == Init /\ [][Next]_vars

\* ------------------------------------------------------------------------
\* Specification: matchmaking alone, with players leaving, quitting and
\* dropping, and joining again
\* ------------------------------------------------------------------------
MatchSockets == 2
MatchGames == 2

NextMatch ==
    \/ Connect(MatchSockets)
    \/ \E s \in Unnamed : setUsername(s, NameFor(s))
    \/ \E s \in connected : joinGame(s, MatchGames)
    \/ \E s \in Named : leaveGame(s)
    \/ \E g \in GameIds : \E s \in SlotHolders(g) :
          playerDisconnect(s, g, connectedPlayers[s])
    \/ \E s \in Sockets : disconnect(s)
    \/ \E t \in timers : disconnectTimeoutFired(t)
    \/ Tick(GracePeriod)

SpecMatch == Init /\ [][NextMatch]_vars

\* ------------------------------------------------------------------------
\* Specification: two players meet and play the lines of the book, with
\* requests to start over and to start a new game at any point
\* ------------------------------------------------------------------------
PlaySockets == 2

NextPlay ==
    \/ Connect(PlaySockets)
    \/ \E s \in Unnamed : setUsername(s, NameFor(s))
    \/ \E s \in Named : joinGame(s, MaxGames)
    \/ \E s \in Named, g \in GameIds :
          \E cell \in MoveInputs(g, MaxPlayPly) :
             makeMoveHandler(s, g, cell[1], cell[2])
    \/ \E s \in Named, g \in GameIds : requestStartOver(s, g)
    \/ \E s \in Named, g \in GameIds : requestNewGame(s, g)
    \/ \E s \in Named, g \in GameIds, accept \in BOOLEAN :
          respondToNewGame(s, g, accept)

SpecPlay == Init /\ [][NextPlay]_vars

\* ------------------------------------------------------------------------
\* Specification: a player's games against the AI, with the AI's delayed
\* answers, restarts and resets
\* ------------------------------------------------------------------------
\* The moves a player may have sent that the AI has not answered yet, and
\* the moves of a game against the AI after which the player sends no more.
MaxTasks == 1
MaxAIPly == 3

NextAIGame ==
    \/ Connect(PlaySockets)
    \/ \E s \in Unnamed : setUsername(s, NameFor(s))
    \/ \E s \in Named : joinAIGame(s, MaxGames)
    \/ \E s \in Named, g \in GameIds :
          \E cell \in MoveInputs(g, MaxAIPly) :
             /\ Len(aiTasks) < MaxTasks
             /\ makeMoveHandler(s, g, cell[1], cell[2])
    \/ \E s \in Named, g \in GameIds : requestStartOver(s, g)
    \/ \E s \in Named, g \in GameIds : resetAIGame(s, g)
    \/ \E i \in DOMAIN aiTasks : handleAIMoveStart(i)
    \/ \E i \in DOMAIN aiTasks : handleAIMoveFinish(i)
    \/ Tick(AIMoveDelay)

SpecAIGame == Init /\ [][NextAIGame]_vars

\* ------------------------------------------------------------------------
\* Specification: a player's games against the AI, which the player quits
\* or leaves at any point, also while the AI's answer is pending
\* ------------------------------------------------------------------------
NextAIQuit ==
    \/ Connect(PlaySockets)
    \/ \E s \in Unnamed : setUsername(s, NameFor(s))
    \/ \E s \in Named : joinAIGame(s, MaxGames)
    \/ \E s \in Named, g \in GameIds :
          \E cell \in MoveInputs(g, MaxAIPly) :
             /\ Len(aiTasks) < MaxTasks
             /\ makeMoveHandler(s, g, cell[1], cell[2])
    \/ \E g \in GameIds : \E s \in SlotHolders(g) :
          playerDisconnect(s, g, connectedPlayers[s])
    \/ \E s \in Named : leaveGame(s)
    \/ \E i \in DOMAIN aiTasks : handleAIMoveStart(i)
    \/ \E i \in DOMAIN aiTasks : handleAIMoveFinish(i)
    \/ Tick(AIMoveDelay)

SpecAIQuit == Init /\ [][NextAIQuit]_vars

\* ------------------------------------------------------------------------
\* Specification: one player's game against the AI, in which the player
\* restarts, resets and moves again while answers of the AI are pending,
\* and the timeouts of the AI run when their time has come
\* ------------------------------------------------------------------------
\* The answers of the AI that may be pending at once, and the moves of a
\* game after which the player sends no more.
LiveTasks == 2
LivePly == 2
LiveSockets == 1

AISteps ==
    \/ \E i \in DOMAIN aiTasks : handleAIMoveStart(i)
    \/ \E i \in DOMAIN aiTasks : handleAIMoveFinish(i)

NextAILive ==
    \/ Connect(LiveSockets)
    \/ \E s \in Unnamed : setUsername(s, NameFor(s))
    \/ \E s \in Named : joinAIGame(s, MaxGames)
    \/ \E s \in Named, g \in GameIds :
          \E cell \in MoveInputs(g, LivePly) :
             /\ Len(aiTasks) < LiveTasks
             /\ makeMoveHandler(s, g, cell[1], cell[2])
    \/ \E s \in Named, g \in GameIds : requestStartOver(s, g)
    \/ \E s \in Named, g \in GameIds : resetAIGame(s, g)
    \/ AISteps
    \/ Tick(AIMoveDelay)

\* What a step of AISteps does to aiTasks: a timeout that is due runs, and
\* its entry moves on to the think() or goes. No other step of the
\* specification changes aiTasks in this way, and such a step is possible
\* exactly when a timeout is due.
AIRuns ==
    \E i \in DOMAIN aiTasks :
        /\ aiTasks[i].remaining = 0
        /\ aiTasks' \in {RemoveAt(aiTasks, i),
                         [aiTasks EXCEPT ![i] = AITask(aiTasks[i].gameId, "think",
                                                       thinkingTime)]}

\* setTimeout callbacks run when they are due, and time passes.
SpecAILive ==
    /\ Init
    /\ [][NextAILive]_vars
    /\ WF_aiTasks(AIRuns)
    /\ WF_vars(Tick(AIMoveDelay))

\* ------------------------------------------------------------------------
\* Specification: players meet each other or the AI, quit, drop, come back
\* and ask to join again, also while they are in a game
\* ------------------------------------------------------------------------
NextSession ==
    \/ Connect(MatchSockets)
    \/ \E s \in Unnamed : setUsername(s, NameFor(s))
    \/ \E s \in Named \ Waiting : joinGame(s, MatchGames)
    \/ \E s \in Named \ Waiting : joinAIGame(s, MatchGames)
    \/ \E s \in Named : reconnectToGame(s)
    \/ \E g \in GameIds : \E s \in SlotHolders(g) :
          playerDisconnect(s, g, connectedPlayers[s])
    \/ \E s \in Sockets : disconnect(s)
    \/ \E t \in timers : disconnectTimeoutFired(t)
    \/ Tick(GracePeriod)

SpecSession == Init /\ [][NextSession]_vars

\* ------------------------------------------------------------------------
\* Specification: the registry. Every connected socket, with a username or
\* without, sends every request about joining, leaving, quitting and
\* reconnecting, for every game id and every player name, and the requests
\* about a game's play for the games it holds no slot of
\* ------------------------------------------------------------------------
LobbySockets == 2
LobbyGames == 2

\* The connected sockets that hold no slot of a game: moves, votes and
\* proposals are sent here by these only, the games are not played.
Outsiders(g) == connected \ SlotHolders(g)

NextLobby ==
    \/ Connect(LobbySockets)
    \/ \E s \in Unnamed, n \in Names : setUsername(s, n)
    \/ \E s \in connected : joinGame(s, LobbyGames)
    \/ \E s \in connected : joinAIGame(s, LobbyGames)
    \/ \E s \in connected : leaveGame(s)
    \/ \E s \in connected : reconnectToGame(s)
    \/ \E s \in connected, g \in GameIds, n \in Names : playerDisconnect(s, g, n)
    \/ \E g \in GameIds : \E s \in Outsiders(g) :
          \E cell \in MoveInputs(g, MaxLifePly) :
             makeMoveHandler(s, g, cell[1], cell[2])
    \/ \E g \in GameIds : \E s \in Outsiders(g) : requestStartOver(s, g)
    \/ \E g \in GameIds : \E s \in Outsiders(g) : requestNewGame(s, g)
    \/ \E g \in GameIds : \E s \in Outsiders(g) : \E accept \in BOOLEAN :
          respondToNewGame(s, g, accept)
    \/ \E g \in GameIds : \E s \in Outsiders(g) : resetAIGame(s, g)
    \/ \E s \in Sockets : disconnect(s)
    \/ \E t \in timers : disconnectTimeoutFired(t)
    \/ Tick(GracePeriod)

SpecLobby == Init /\ [][NextLobby]_vars

\* ------------------------------------------------------------------------
\* Direct calls of Game.makeMove / Game.checkWin on drawn boards
\* ------------------------------------------------------------------------
\* How far from the played cell, along the line, stones are drawn.
MaxReach == 4

WinPivots ==
    {<<0, 0>>, <<BoardCenter, BoardCenter>>, <<2, BoardSize - 3>>,
     <<BoardCenter, BoardSize - 1>>}

LineOffsets == (-MaxReach .. MaxReach) \ {0}

\* Own stones on the next axis: none, four in a line with the played cell,
\* five in a line with the played cell.
CrossPatterns == {{}, {-1, 1, 2}, {-2, -1, 1, 2}}

\* The offset of the cell at (dr, dc) from the pivot along axis d; 0 for the
\* pivot itself and for a cell off that axis.
AxisOffset(dr, dc, d) ==
    LET dx == directions[d][1]
        dy == directions[d][2]
        k  == IF dx # 0 THEN dr * dx ELSE dc * dy
    IN IF dr = k * dx /\ dc = k * dy THEN k ELSE 0

\* A board with the cell pivot empty, player's stones at the offsets own of
\* axis d, filler on the other drawn cells of that axis, and player's stones
\* at the offsets cross of the next axis.
LineBoard(pivot, d, own, filler, player, cross) ==
    [r \in Rows |-> [c \in Rows |->
        IF Abs(r - pivot[1]) > MaxReach \/ Abs(c - pivot[2]) > MaxReach THEN Null
        ELSE LET k == AxisOffset(r - pivot[1], c - pivot[2], d)
                 x == AxisOffset(r - pivot[1], c - pivot[2],
                                 (d % Len(directions)) + 1)
             IN IF k \in own THEN player
                ELSE IF k # 0 THEN filler
                ELSE IF x \in cross THEN player
                ELSE Null]]

\* The game a probe calls makeMove on: the drawn board, player to move.
ProbeGame(board, player) ==
    [NewGame(1, 1, 2, Ann, Bob, FALSE) EXCEPT !.board = board,
                                              !.currentPlayer = player]

NoResult == [result |-> [success |-> FALSE]]

InitWin ==
    /\ ServerInit
    /\ \E pivot \in WinPivots, d \in 1 .. Len(directions),
          own \in SUBSET LineOffsets, opp \in BOOLEAN,
          player \in Colors, cross \in CrossPatterns :
          probe = [kind |-> "makeMove",
                   game |-> ProbeGame(LineBoard(pivot, d, own,
                                                IF opp THEN Other(player) ELSE Null,
                                                player, cross),
                                      player),
                   row |-> pivot[1], col |-> pivot[2], player |-> player,
                   done |-> FALSE, out |-> NoResult]

\* game.makeMove(row, col, player) on the drawn board.
CallMakeMove ==
    /\ probe.kind = "makeMove"
    /\ ~probe.done
    /\ probe' = [probe EXCEPT
                    !.done = TRUE,
                    !.out = makeMove(probe.game, probe.row, probe.col, probe.player)]
    /\ UNCHANGED serverVars

NextWin == CallMakeMove

SpecWin == InitWin /\ [][NextWin]_vars

\* ------------------------------------------------------------------------
\* Direct calls of Game.makeMove, one after another on the same game, from
\* positions near the end of a game: one move from a win of either colour
\* and one move from a full board
\* ------------------------------------------------------------------------
\* How many calls are made on one game.
MaxCalls == 3

\* A full board without five in a row: rows of two black, two white, each
\* row shifted by two. It holds 181 black and 180 white stones.
PatternBoard ==
    [r \in Rows |-> [c \in Rows |-> IF (c + 2 * r) % 4 < 2 THEN Black ELSE White]]

\* The cell left for the 361st move, a black one.
LastCell == <<0, 0>>

\* 360 stones, no five in a row, and none after black takes the last cell.
AlmostFullBoard == PlaceStone(PatternBoard, LastCell[1], LastCell[2], Null)

\* 360 stones, no five in a row, and black's stone on the last cell
\* completes (0,0)..(0,4).
AlmostFullWinBoard ==
    [r \in Rows |-> [c \in Rows |->
        IF <<r, c>> = LastCell THEN Null
        ELSE IF <<r, c>> \in {<<0, 2>>, <<0, 3>>} THEN Black
        ELSE IF <<r, c>> \in {<<0, 5>>, <<10, 0>>} THEN White
        ELSE PatternBoard[r][c]]]

\* Four black stones on (0,1)..(0,4) and four white ones on (5,0)..(5,3),
\* with one more black stone when it is white's move.
NearWinBoard(player) ==
    [r \in Rows |-> [c \in Rows |->
        IF r = 0 /\ c \in 1 .. 4 THEN Black
        ELSE IF r = 5 /\ c \in 0 .. 3 THEN White
        ELSE IF player = White /\ <<r, c>> = <<BoardCenter, BoardCenter>> THEN Black
        ELSE Null]]

StoneCount(board) ==
    Cardinality({cell \in Cells : board[cell[1]][cell[2]] # Null})

\* A game in play on the board, player to move, after as many moves as the
\* board has stones.
GameInPlay(board, player) ==
    [ProbeGame(board, player) EXCEPT !.moveCount = StoneCount(board)]

StartGames ==
    {NewGame(1, 1, 2, Ann, Bob, FALSE),
     GameInPlay(NearWinBoard(Black), Black),
     GameInPlay(NearWinBoard(White), White),
     GameInPlay(AlmostFullBoard, Black),
     GameInPlay(AlmostFullWinBoard, Black)}

\* The cells the calls try: off the board on each side, the last cell, the
\* cells that complete the rows of NearWinBoard, a taken cell and a cell
\* that is free on every board but the full ones.
MoveCells ==
    {<<-1, 0>>, <<0, BoardSize>>, <<BoardSize, 0>>, <<0, -1>>, LastCell,
     <<5, 4>>, <<0, 1>>, <<BoardSize - 1, BoardSize - 1>>}

InitMove ==
    /\ ServerInit
    /\ \E game \in StartGames :
          probe = [kind |-> "moves", before |-> game, game |-> game,
                   row |-> 0, col |-> 0, player |-> Black, calls |-> 0,
                   out |-> [success |-> FALSE, reason |-> Valid,
                            gameOver |-> game.gameOver, winner |-> game.winner,
                            currentPlayer |-> game.currentPlayer]]

\* game.makeMove(row, col, player) on the game the calls before left.
SubmitMove(row, col, player) ==
    /\ probe.kind = "moves"
    /\ probe.calls < MaxCalls
    /\ LET done == makeMove(probe.game, row, col, player)
       IN probe' = [kind |-> "moves", before |-> probe.game, game |-> done.game,
                    row |-> row, col |-> col, player |-> player,
                    calls |-> probe.calls + 1, out |-> done.result]
    /\ UNCHANGED serverVars

NextMove == \E cell \in MoveCells, player \in Colors : SubmitMove(cell[1], cell[2], player)

SpecMove == InitMove /\ [][NextMove]_vars

\* ------------------------------------------------------------------------
\* Specification: the last moves of a game between two players, from boards
\* one move before a win of either colour and one move before the board is
\* full, with the restarts and new games that may follow
\* ------------------------------------------------------------------------
\* The moves the players send in one run.
MaxEndPly == 3

\* The cells of the board in row-major order, and those of them that hold
\* color's stones.
ScanOrder ==
    [k \in 1 .. (BoardSize * BoardSize) |->
        <<(k - 1) \div BoardSize, (k - 1) % BoardSize>>]
CellsOf(board, color) ==
    LET Holds(p) == board[p[1]][p[2]] = color
    IN SelectSeq(ScanOrder, Holds)

\* A log of moves that leads to the board: black and white in turn, each
\* colour taking its cells in row-major order.
LogOf(board) ==
    LET b == CellsOf(board, Black)
        w == CellsOf(board, White)
    IN [i \in 1 .. (Len(b) + Len(w)) |->
           LET p == IF i % 2 = 1 THEN b[(i + 1) \div 2] ELSE w[i \div 2]
           IN [row |-> p[1], col |-> p[2],
               player |-> IF i % 2 = 1 THEN Black ELSE White,
               moveNumber |-> i]]

\* Ann (socket 1, black) and Bob (socket 2, white) in game 1 after the
\* moves of LogOf(board).
LateGame(board) ==
    [NewGame(1, 1, 2, Ann, Bob, FALSE)
        EXCEPT !.board = board,
               !.currentPlayer = IF StoneCount(board) % 2 = 0 THEN Black ELSE White,
               !.moveCount = StoneCount(board),
               !.moveHistory = LogOf(board)]

LateGames ==
    {LateGame(NearWinBoard(Black)), LateGame(NearWinBoard(White)),
     LateGame(AlmostFullBoard), LateGame(AlmostFullWinBoard)}

\* The server after two connections, setUsername of Ann and of Bob, their
\* two joinGame and the moves of the game.
InitEnd ==
    /\ nextSocketId = 3
    /\ connected = {1, 2}
    /\ rooms = {<<1, 1>>, <<2, 1>>}
    /\ connectedPlayers = Put(Put(EmptyMap, 1, Ann), 2, Bob)
    /\ playerNames = {Ann, Bob}
    /\ playerGameMap = Put(Put(EmptyMap, Ann, 1), Bob, 1)
    /\ waitingPlayers = <<>>
    /\ \E game \in LateGames : games = Put(EmptyMap, 1, game)
    /\ orphans = EmptyMap
    /\ nextGameId = 2
    /\ startOverRequests = EmptyMap
    /\ timers = {}
    /\ aiTasks = <<>>
    /\ lastOp = Op("start", NoSocket, 0, NoWin)
    /\ lastEvents = {}
    /\ dropInfo = EmptyMap
    /\ newGameAsked = {}
    /\ probe = NoProbe

\* The moves sent since the start or since the last reset.
NextEnd ==
    \/ \E s \in Named, g \in GameIds : \E cell \in MoveCells :
          /\ Has(games, g)
          /\ games[g].moveCount < MaxEndPly
             \/ games[g].moveCount >= StoneCount(NearWinBoard(Black))
          /\ games[g].moveCount
                < StoneCount(NearWinBoard(Black)) + MaxEndPly
             \/ games[g].moveCount >= StoneCount(AlmostFullBoard)
          /\ makeMoveHandler(s, g, cell[1], cell[2])
    \/ \E s \in Named, g \in GameIds : requestStartOver(s, g)
    \/ \E s \in Named, g \in GameIds : requestNewGame(s, g)
    \/ \E s \in Named, g \in GameIds, accept \in BOOLEAN :
          respondToNewGame(s, g, accept)

SpecEnd == InitEnd /\ [][NextEnd]_vars

\* The reference: some window of five cells on one of the four axes that
\* contains (row, col) lies on the board and holds only player's stones.
BruteForceWin(board, row, col, player) ==
    \E d \in 1 .. Len(directions) : \E start \in 0 .. (WinLength - 1) :
        \A j \in 0 .. (WinLength - 1) :
            LET r == row + (j - start) * directions[d][1]
                c == col + (j - start) * directions[d][2]
            IN InBounds(r, c) /\ board[r][c] = player

\* C1: checkWin, evaluated right after a colour's stone is placed on an
\* in-bounds cell, returns won = true exactly when some line of five
\* contiguous cells of that colour on one of the four axes contains the cell.
C1_CheckWinEqualsBruteForce ==
    (probe.kind = "makeMove" /\ probe.done /\ probe.out.result.success) =>
        (probe.out.winResult.won <=>
            BruteForceWin(probe.out.game.board, probe.row, probe.col, probe.player))

\* C1 witness: a win found on the last column, through a run longer than five.
C1_Witness ==
    /\ probe.kind = "makeMove" /\ probe.done /\ probe.out.result.success
    /\ probe.out.winResult.won
    /\ probe.col = BoardSize - 1
    /\ Len(probe.out.winResult.winningStones) > WinLength

\* ------------------------------------------------------------------------
\* Direct calls of AIPlayer.getBestMove on boards with a row of four
\* ------------------------------------------------------------------------
\* The first cell of the row of four.
FourAnchors ==
    {<<BoardCenter, 5>>, <<0, 0>>, <<3, BoardSize - 4>>, <<12, 3>>, <<6, 10>>}

\* Stones far from the row of four: none, three of the AI's colour, or four
\* of the colour that does not own the row (the last row of the board).
ExtraKinds == {"none", "three", "four"}

FourCells(anchor, d) ==
    {<<anchor[1] + k * directions[d][1], anchor[2] + k * directions[d][2]>> :
        k \in 0 .. (ThreatLength - 1)}
EndBefore(anchor, d) ==
    <<anchor[1] - directions[d][1], anchor[2] - directions[d][2]>>
EndAfter(anchor, d) ==
    <<anchor[1] + ThreatLength * directions[d][1],
      anchor[2] + ThreatLength * directions[d][2]>>

\* A board with owner's row of four from anchor along axis d, the other
\* colour on the capped ends, and the extra stones.
FourBoard(anchor, d, owner, capBefore, capAfter, extra, aiColor) ==
    [r \in Rows |-> [c \in Rows |->
        IF <<r, c>> \in FourCells(anchor, d) THEN owner
        ELSE IF capBefore /\ <<r, c>> = EndBefore(anchor, d) THEN Other(owner)
        ELSE IF capAfter /\ <<r, c>> = EndAfter(anchor, d) THEN Other(owner)
        ELSE IF extra = "three" /\ r = BoardSize - 1 /\ c \in 10 .. 12 THEN aiColor
        ELSE IF extra = "four" /\ r = BoardSize - 1 /\ c \in 2 .. 5 THEN Other(owner)
        ELSE Null]]

\* The row fits on the board and an end of it is an empty cell of the board.
FourIsOpen(anchor, d, capBefore, capAfter) ==
    /\ \A p \in FourCells(anchor, d) : InBounds(p[1], p[2])
    /\ \/ InBounds(EndBefore(anchor, d)[1], EndBefore(anchor, d)[2]) /\ ~capBefore
       \/ InBounds(EndAfter(anchor, d)[1], EndAfter(anchor, d)[2]) /\ ~capAfter

InitAI ==
    /\ ServerInit
    /\ \E anchor \in FourAnchors, d \in 1 .. Len(directions), owner \in Colors,
          capBefore \in BOOLEAN, capAfter \in BOOLEAN, extra \in ExtraKinds,
          aiColor \in Colors :
          /\ FourIsOpen(anchor, d, capBefore, capAfter)
          /\ probe = [kind |-> "getBestMove",
                      board |-> FourBoard(anchor, d, owner, capBefore, capAfter,
                                          extra, aiColor),
                      aiColor |-> aiColor, done |-> FALSE, out |-> {}]

\* aiPlayer.getBestMove(board, aiColor, humanColor) on the drawn board.
CallGetBestMove ==
    /\ probe.kind = "getBestMove"
    /\ ~probe.done
    /\ probe' = [kind |-> probe.kind, board |-> probe.board,
                 aiColor |-> probe.aiColor, done |-> TRUE,
                 out |-> getBestMove(probe.board, probe.aiColor,
                                     Other(probe.aiColor)),
                 after |-> BoardAfterBestMove(probe.board, probe.aiColor,
                                              Other(probe.aiColor))]
    /\ UNCHANGED serverVars

NextAI == CallGetBestMove

SpecAI == InitAI /\ [][NextAI]_vars

\* ------------------------------------------------------------------------
\* Direct calls of AIPlayer.getBestMove on boards where each of its rules
\* in turn is the first to find a cell: a line of the AI's stones and a
\* line of the opponent's, of two to four stones, whole or with a gap, the
\* AI's above or below the opponent's; and boards that are empty, nearly
\* full and full
\* ------------------------------------------------------------------------
\* The offsets, along its axis, of the stones of a line: no stone, two and
\* three in a row, three with a gap, four in a row, four with a gap.
LinePatterns == {{}, {0, 1}, {0, 1, 2}, {0, 1, 3}, {0, 1, 2, 3}, {0, 1, 3, 4}}

\* The first cell of the AI's line and of the opponent's.
AIAnchors == {<<2, 6>>, <<14, 6>>}
HumanAnchor == <<8, 6>>

\* The offset of cell (r, c) from the anchor along axis d; -1 off the axis.
OffsetOn(r, c, anchor, d) ==
    LET k == IF directions[d][1] # 0 THEN r - anchor[1]
             ELSE (c - anchor[2]) * directions[d][2]
    IN IF r = anchor[1] + k * directions[d][1] /\ c = anchor[2] + k * directions[d][2]
       THEN k ELSE -1

PlanBoard(aiAnchor, aiAxis, aiLine, humanAxis, humanLine, aiColor) ==
    [r \in Rows |-> [c \in Rows |->
        IF OffsetOn(r, c, aiAnchor, aiAxis) \in aiLine THEN aiColor
        ELSE IF OffsetOn(r, c, HumanAnchor, humanAxis) \in humanLine
        THEN Other(aiColor)
        ELSE Null]]

\* The empty board, a board with one stone in a corner, the boards one move
\* from full and the full board.
EdgeBoards ==
    {initializeBoard, PlaceStone(initializeBoard, 0, 0, Black),
     AlmostFullBoard, AlmostFullWinBoard, PatternBoard}

InitPlan ==
    /\ ServerInit
    /\ \E aiColor \in Colors :
          \/ \E aiAnchor \in AIAnchors, aiAxis \in 1 .. Len(directions),
                aiLine \in LinePatterns, humanAxis \in {1, 3},
                humanLine \in LinePatterns :
                probe = [kind |-> "getBestMove",
                         board |-> PlanBoard(aiAnchor, aiAxis, aiLine, humanAxis,
                                             humanLine, aiColor),
                         aiColor |-> aiColor, done |-> FALSE, out |-> {}]
          \/ \E board \in EdgeBoards :
                probe = [kind |-> "getBestMove", board |-> board,
                         aiColor |-> aiColor, done |-> FALSE, out |-> {}]

NextPlan == CallGetBestMove

SpecPlan == InitPlan /\ [][NextPlan]_vars

\* Some colour has four contiguous stones on an axis next to an empty cell
\* of that line.
HasOpenFour(board) ==
    \E p \in Cells, d \in 1 .. Len(directions) :
        /\ board[p[1]][p[2]] # Null
        /\ \A q \in FourCells(p, d) :
              InBounds(q[1], q[2]) /\ board[q[1]][q[2]] = board[p[1]][p[2]]
        /\ \E e \in {EndBefore(p, d), EndAfter(p, d)} :
              InBounds(e[1], e[2]) /\ board[e[1]][e[2]] = Null

\* A stone of the colour on the empty cell would stand in a line of five.
Completes(board, p, color) ==
    /\ board[p[1]][p[2]] = Null
    /\ BruteForceWin(PlaceStone(board, p[1], p[2], color), p[1], p[2], color)

\* C8: on a board where a colour has four contiguous stones on one axis and
\* an adjacent empty cell of the line completes five, getBestMove returns a
\* cell that completes five: for the AI's own colour whenever there is one
\* (priority 1), else for the opponent's (priority 2).
C8_BestMoveCompletesFive ==
    (probe.kind = "getBestMove" /\ probe.done /\ HasOpenFour(probe.board)) =>
        /\ probe.out # {}
        /\ \A p \in probe.out :
              \/ Completes(probe.board, p, probe.aiColor)
              \/ /\ Completes(probe.board, p, Other(probe.aiColor))
                 /\ \A q \in Cells : ~Completes(probe.board, q, probe.aiColor)

\* C8 witness: white at (9,5)..(9,8), both ends empty, white to move: the
\* answer is (9,4).
C8_Witness ==
    /\ probe.kind = "getBestMove" /\ probe.done
    /\ probe.aiColor = White
    /\ probe.board = FourBoard(<<BoardCenter, 5>>, 1, White, FALSE, FALSE, "none", White)
    /\ probe.out = {<<BoardCenter, 4>>}

\* ------------------------------------------------------------------------
\* Moves, turns, restarts and wins in play
\* ------------------------------------------------------------------------
IllegalReasons == {OutOfBounds, Occupied, NotYourTurn, GameIsOver}

\* The last handler was a makeMove refused with one of the reasons.
MoveRefused(reasons) ==
    /\ lastOp.op = "makeMove"
    /\ \E e \in lastEvents : e.event = "moveError" /\ e.a \in reasons

\* C2: whenever makeMove is refused as an illegal move (out of bounds,
\* occupied cell, wrong turn, game over), the board, the current turn, the
\* move count, the move log and the outcome of every game are what they
\* were before the call.
C2_RefusedMoveChangesNothing ==
    [][MoveRefused(IllegalReasons)' =>
          /\ DOMAIN games' = DOMAIN games
          /\ \A g \in DOMAIN games :
                /\ games'[g].board = games[g].board
                /\ games'[g].currentPlayer = games[g].currentPlayer
                /\ games'[g].moveCount = games[g].moveCount
                /\ games'[g].moveHistory = games[g].moveHistory
                /\ games'[g].winner = games[g].winner
                /\ games'[g].gameOver = games[g].gameOver]_vars

\* C2 witness: a move on an empty cell of a finished game was refused.
C2_Witness ==
    /\ MoveRefused({GameIsOver})
    /\ Has(games, lastOp.game)
    /\ games[lastOp.game].gameOver
    /\ games[lastOp.game].moveCount >= 2 * WinLength - 1

\* C3: in every game at most one move succeeds per turn: no two consecutive
\* entries of the move log (which a reset empties) are of the same colour,
\* whichever sockets sent the moves and in whatever order.
C3_OneMovePerTurn ==
    \A g \in DOMAIN games :
        \A i \in 1 .. (Len(games[g].moveHistory) - 1) :
            games[g].moveHistory[i].player # games[g].moveHistory[i + 1].player

\* C3 witness: right after a colour's move, a further move of that colour
\* on an empty cell was refused.
C3_Witness ==
    /\ MoveRefused({NotYourTurn})
    /\ Has(games, lastOp.game)
    /\ ~games[lastOp.game].gameOver
    /\ games[lastOp.game].moveCount >= 1
    /\ games[lastOp.game].moveHistory[games[lastOp.game].moveCount].player
          = ColorOf(games[lastOp.game], lastOp.socket)

\* The last handler was a requestStartOver that restarted the game.
Restarted ==
    /\ lastOp.op = "requestStartOver"
    /\ \E e \in lastEvents : e.event = "gameRestarted" /\ e.game = lastOp.game

\* C6: when a restart takes effect, the board is empty, the turn is black's,
\* the move count is 0, the move log is empty and there is no outcome, while
\* the game keeps its id and both players keep their slots.
C6_RestartResets ==
    [][Restarted' =>
          LET g == lastOp'.game
          IN /\ Has(games, g) /\ Has(games', g)
             /\ games'[g].board = initializeBoard
             /\ games'[g].currentPlayer = Black
             /\ games'[g].moveCount = 0
             /\ games'[g].moveHistory = <<>>
             /\ games'[g].winner = Null
             /\ ~games'[g].gameOver
             /\ games'[g].id = games[g].id
             /\ games'[g].player1 = games[g].player1
             /\ games'[g].player2 = games[g].player2
             /\ games'[g].player1Name = games[g].player1Name
             /\ games'[g].player2Name = games[g].player2Name]_vars

\* C6 witness: a finished game was restarted.
C6_Witness ==
    /\ Restarted
    /\ lastOp.was.gameOver
    /\ lastOp.was.moveCount >= 2 * WinLength - 1
    /\ games[lastOp.game].board = initializeBoard

\* The last handler was a makeMove whose stone completed a row.
MoveWon == lastOp.op = "makeMove" /\ lastOp.win.won

\* The game is over and won by the colour of the last move, and the socket
\* of each slot was sent gameEnded with that winner.
FinishedAndTold(g) ==
    LET game == games[g]
        c    == game.moveHistory[game.moveCount].player
    IN /\ game.gameOver
       /\ game.winner = c
       /\ \A s \in {game.player1, game.player2} \ {NoSocket} :
             \E e \in lastEvents :
                e.to = s /\ e.event = "gameEnded" /\ e.game = g /\ e.a = c

\* The coordinates follow each other by one step of one of the four axes.
InBoardOrder(line) ==
    \E d \in 1 .. Len(directions) :
        \A i \in 1 .. (Len(line) - 1) :
            /\ line[i + 1][1] = line[i][1] + directions[d][1]
            /\ line[i + 1][2] = line[i][2] + directions[d][2]

Joined == lastOp.op = "joinGame" /\ Has(connectedPlayers, lastOp.socket)

SentIn(events, to, event, game, a) ==
    \E e \in events : e.to = to /\ e.event = event /\ e.game = game /\ e.a = a
Sent(to, event, game, a) == SentIn(lastEvents, to, event, game, a)

\* C9: a joinGame (of a named player without a live game) on an empty queue
\* enqueues the requester and answers waitingForOpponent; on a non-empty queue
\* it removes the head and creates exactly one game with the head as black,
\* first to move, and the requester as white, maps both names to that game
\* and sends gameStarted to both: the one who waited longest is black.
C9_JoinQueuesOrPairsHeadAsBlack ==
    [][(Joined' /\ ~HasLiveGame(connectedPlayers[lastOp'.socket])) =>
          LET s == lastOp'.socket
              g == lastOp'.game
          IN IF waitingPlayers = <<>>
             THEN /\ waitingPlayers' = <<s>>
                  /\ SentIn(lastEvents', s, "waitingForOpponent", 0,
                            "Waiting for another player to join...")
                  /\ games' = games
                  /\ playerGameMap' = playerGameMap
             ELSE LET h == Head(waitingPlayers)
                  IN /\ waitingPlayers' = Tail(waitingPlayers)
                     /\ g \notin DOMAIN games
                     /\ DOMAIN games' = (DOMAIN games) \cup {g}
                     /\ \A x \in DOMAIN games : games'[x] = games[x]
                     /\ games'[g].player1 = h
                     /\ games'[g].player2 = s
                     /\ games'[g].player1Name = connectedPlayers[h]
                     /\ games'[g].player2Name = connectedPlayers[s]
                     /\ games'[g].currentPlayer = Black
                     /\ ColorOf(games'[g], h) = Black
                     /\ playerGameMap'[connectedPlayers[h]] = g
                     /\ playerGameMap'[connectedPlayers[s]] = g
                     /\ SentIn(lastEvents', h, "gameStarted", g, Black)
                     /\ SentIn(lastEvents', s, "gameStarted", g, White)]_vars

\* C9 witness: the second game of the run paired a waiting player, as
\* black, with a newcomer on another socket.
C9_Witness ==
    /\ Joined
    /\ lastOp.game > 1
    /\ games[lastOp.game].player2 = lastOp.socket
    /\ games[lastOp.game].player1 # lastOp.socket
    /\ Sent(games[lastOp.game].player1, "gameStarted", lastOp.game, Black)

\* ------------------------------------------------------------------------
\* Drops, reconnections and restart votes
\* ------------------------------------------------------------------------
\* The last handler was a reconnectToGame of a socket with a username.
Reconnecting == lastOp.op = "reconnectToGame" /\ Has(connectedPlayers, lastOp.socket)

\* The socket holds in game g the slot of the colour.
Holds(gms, g, socket, color) ==
    /\ Has(gms, g)
    /\ IF color = Black THEN gms[g].player1 = socket ELSE gms[g].player2 = socket

\* C4: if a player's socket drops and the player asks to reconnect strictly
\* before the grace period of that drop is over, the reconnection succeeds:
\* the game is still in games, the new socket holds the player's slot with
\* the same colour, and the board is the board at the drop. The statement
\* is taken in its most lenient reading: it asks nothing when meanwhile a
\* player quit the game with playerDisconnect, the player itself sent
\* leaveGame, or a stone was placed.
C4_ReconnectInWindowSucceeds ==
    [][\A n \in DOMAIN dropInfo :
          (/\ Reconnecting'
           /\ connectedPlayers[lastOp'.socket] = n
           /\ dropInfo[n].age < GracePeriod
           /\ ~dropInfo[n].excused) =>
             LET d == dropInfo[n]
             IN /\ SentIn(lastEvents', lastOp'.socket, "reconnectedToGame",
                          d.gameId, d.color)
                /\ Holds(games', d.gameId, lastOp'.socket, d.color)
                /\ games'[d.gameId].board = d.board]_vars

\* C5: if a player's socket drops and the player asks to reconnect strictly
\* after the grace period (10 s) counted from that drop, the answer is
\* reconnectError and the player is not bound to the old game again.
C5_ReconnectAfterWindowFails ==
    [][\A n \in DOMAIN dropInfo :
          (/\ Reconnecting'
           /\ connectedPlayers[lastOp'.socket] = n
           /\ dropInfo[n].age > GracePeriod) =>
             /\ \E e \in lastEvents' :
                   e.to = lastOp'.socket /\ e.event = "reconnectError"
             /\ ~Holds(games', dropInfo[n].gameId, lastOp'.socket,
                       dropInfo[n].color)]_vars

\* The names of the players whose sockets are in a set.
NamesOf(socks) == {connectedPlayers[x] : x \in socks \cap DOMAIN connectedPlayers}

\* C7: in a game of two humans a requestStartOver resets the board only when
\* both players have voted since the last reset; votes of one player alone,
\* repeated or cast from an old and a new socket around a reconnection,
\* never reset it.
C7_RestartNeedsBothPlayers ==
    [][(Restarted' /\ Has(games, lastOp'.game) /\ ~games[lastOp'.game].isAIGame) =>
          LET g     == lastOp'.game
              votes == (IF Has(startOverRequests, g) THEN startOverRequests[g]
                        ELSE {}) \cup {lastOp'.socket}
          IN {games[g].player1Name, games[g].player2Name} \subseteq NamesOf(votes)]_vars

\* ------------------------------------------------------------------------
\* The registry
\* ------------------------------------------------------------------------
\* The names of the sockets in the queue.
QueuedNames ==
    {connectedPlayers[waitingPlayers[i]] :
        i \in {j \in DOMAIN waitingPlayers : Has(connectedPlayers, waitingPlayers[j])}}

\* The games in the registry in which a name holds a slot.
LiveGamesOf(n) ==
    {g \in DOMAIN games : n \in {games[g].player1Name, games[g].player2Name}}

\* The number of places a name is in: the queue and its live games.
PlacesOf(n) ==
    Cardinality(LiveGamesOf(n)) + (IF n \in QueuedNames THEN 1 ELSE 0)

\* C11: after any sequence of setUsername, joinGame, joinAIGame, leaveGame,
\* playerDisconnect, disconnect and reconnectToGame every player name is in
\* at most one place: in the queue or in exactly one game of the registry,
\* never in both and never in two games.
C11_OnePlacePerIdentity == \A n \in Names : PlacesOf(n) <= 1

\* C12: setUsername for a name that is bound to another connected socket is
\* always rejected, so no two sockets connected at the same time are bound
\* to the same name, also when the name holds a slot of a live game.
C12_OneChannelPerIdentity ==
    \A s1, s2 \in Named : connectedPlayers[s1] = connectedPlayers[s2] => s1 = s2

\* The requests about a session, by the name lastOp gives their handlers.
SessionOps ==
    {"joinGame", "joinAIGame", "makeMove", "requestStartOver", "requestNewGame",
     "respondToNewGame", "reconnectToGame", "playerDisconnect", "leaveGame"}

\* C13: every session operation received on a socket that has no username
\* is refused and leaves the games map, the queue, the name-to-game index
\* and every game's state unchanged.
C13_UnnamedSocketChangesNothing ==
    [][(lastOp'.op \in SessionOps /\ lastOp'.socket \in Unnamed) =>
          UNCHANGED <<games, waitingPlayers, playerGameMap, startOverRequests>>]_vars

\* The requests that name a game.
GameOps ==
    {"makeMove", "requestStartOver", "requestNewGame", "respondToNewGame",
     "playerDisconnect"}

\* The name of a socket holds neither slot of the game g, or g is not in
\* the registry.
NoSlotFor(socket, g) ==
    \/ ~Has(games, g)
    \/ connectedPlayers[socket] \notin {games[g].player1Name, games[g].player2Name}

\* C14: a request that names a game that does not exist, or that comes from
\* a socket whose username holds neither slot of the named game, is refused
\* and changes nothing: the game stays in the registry with its board, turn,
\* votes and index entries.
C14_OutsiderChangesNothing ==
    [][(/\ lastOp'.op \in GameOps
        /\ lastOp'.socket \in Named
        /\ NoSlotFor(lastOp'.socket, lastOp'.game)) =>
          UNCHANGED <<games, waitingPlayers, playerGameMap, startOverRequests>>]_vars

\* ------------------------------------------------------------------------
\* Drops and quits
\* ------------------------------------------------------------------------
\* No name is indexed to the game g.
UnindexedIn(index, g) == \A n \in DOMAIN index : index[n] # g
Unindexed(g) == UnindexedIn(playerGameMap, g)

\* C15: if a player's socket drops and the player does not reconnect before
\* the grace period of that drop is over, the game is abandoned: once the
\* period has passed the game is out of the registry and no name is indexed
\* to it, whatever the other player did meanwhile (a quit removes the game
\* as well). A drop is in dropInfo until its player asks to reconnect.
C15_DropWithoutReconnectEndsGame ==
    \A n \in DOMAIN dropInfo :
        dropInfo[n].age > GracePeriod =>
            ~Has(games, dropInfo[n].gameId) /\ Unindexed(dropInfo[n].gameId)

\* A player quits: playerDisconnect from a socket that holds a slot of a
\* game of the registry.
Quitting ==
    /\ lastOp'.op = "playerDisconnect"
    /\ Has(games, lastOp'.game)
    /\ lastOp'.socket \in {games[lastOp'.game].player1, games[lastOp'.game].player2}

\* C16: a quit removes the game from the registry in the same step, with no
\* grace period: right afterwards the game id is unknown, no name is indexed
\* to it and the socket of the other player's slot, if connected, has been
\* told (there is another player when the two slots carry different names);
\* a removed game never comes back, and a reconnectToGame of a name without
\* a live game is answered reconnectError and restores nothing.
C16_QuitRemovesGameAtOnce ==
    [][/\ Quitting =>
             LET g     == lastOp'.game
                 other == IF games[g].player1 = lastOp'.socket
                          THEN games[g].player2 ELSE games[g].player1
             IN /\ ~Has(games', g)
                /\ UnindexedIn(playerGameMap', g)
                /\ (other \in connected
                    /\ games[g].player1Name # games[g].player2Name) =>
                      \E e \in lastEvents' :
                         e.to = other /\ e.event = "opponentDisconnected" /\ e.game = g
       /\ \A g \in GameIds : ~Has(games, g) => ~Has(games', g)
       /\ (Reconnecting' /\ ~HasLiveGame(connectedPlayers[lastOp'.socket])) =>
             /\ \E e \in lastEvents' :
                   e.to = lastOp'.socket /\ e.event = "reconnectError"
             /\ games' = games]_vars

\* A quit has just removed a game and the other player was told.
C16_Witness ==
    /\ lastOp.op = "playerDisconnect"
    /\ lastOp.game \in GameIds
    /\ ~Has(games, lastOp.game)
    /\ \E e \in lastEvents :
          /\ e.event = "opponentDisconnected"
          /\ e.game = lastOp.game
          /\ e.to # lastOp.socket

\* C17: leaveGame only removes the sender from the queue (nothing when it is
\* not queued); when the sender's name is in a live game, the game stays in
\* the registry with its board, turn, outcome and index entries unchanged.
C17_LeaveOnlyLeavesQueue ==
    [][lastOp'.op = "leaveGame" =>
          /\ waitingPlayers' = RemoveWaiting(waitingPlayers, lastOp'.socket)
          /\ UNCHANGED <<games, playerGameMap>>]_vars

\* ------------------------------------------------------------------------
\* New-game proposals
\* ------------------------------------------------------------------------
\* The sender of the last operation holds one slot of game g, whose two
\* slots are held by different sockets, and the holder of the other slot has
\* no unanswered requestNewGame proposal.
AnswersNothing(socket, g) ==
    /\ Has(games, g)
    /\ socket \in {games[g].player1, games[g].player2}
    /\ games[g].player1 # games[g].player2
    /\ <<g, OtherSlot(SlotOf(games[g], socket))>> \notin newGameAsked

\* C18: respondToNewGame resets the game only when the other participant has
\* an unanswered requestNewGame proposal; sent when there is none, it changes
\* no game, index, queue or start-over state, whatever its accept flag.
C18_AcceptNeedsProposal ==
    [][(lastOp'.op = "respondToNewGame" /\ AnswersNothing(lastOp'.socket, lastOp'.game))
          => UNCHANGED <<games, playerGameMap, waitingPlayers, startOverRequests>>]_vars

\* ------------------------------------------------------------------------
\* Games against the AI
\* ------------------------------------------------------------------------
\* The cells of game g that were empty before the step and hold a stone
\* after it.
StonesPlaced(g) ==
    {cell \in Cells : /\ games[g].board[cell[1]][cell[2]] = Null
                      /\ games'[g].board[cell[1]][cell[2]] # Null}

\* The step put a white stone on the cell: it is the AI's move in this game,
\* made on a board that is not empty and whose last move is a black one.
PlacedByAI(g) ==
    /\ lastOp'.op = "aiMove"
    /\ lastOp'.game = g
    /\ games[g].board # initializeBoard
    /\ games[g].moveCount >= 1
    /\ games[g].moveHistory[Len(games[g].moveHistory)].player = Black

\* The step put a black stone on the cell: it is a makeMove of the socket in
\* the game's player1 slot, acting under the human's name.
PlacedByHuman(g) ==
    /\ lastOp'.op = "makeMove"
    /\ lastOp'.game = g
    /\ lastOp'.socket = games[g].player1
    /\ Has(connectedPlayers, lastOp'.socket)
    /\ connectedPlayers[lastOp'.socket] = games[g].player1Name

\* C19: in an AI game the human holds black and moves first and the AI holds
\* white: through moves, restarts and resets, every white stone is placed by
\* the AI in answer to a black move, every black stone by the human, and the
\* AI places no stone on an empty board.
C19_HumanBlackFirstAIWhite ==
    [][/\ \A g \in DOMAIN games' :
             games'[g].isAIGame =>
                /\ games'[g].player2Name = AIPlayerName
                /\ games'[g].player2 = NoSocket
                /\ games'[g].player1Name # AIPlayerName
                /\ games'[g].moveCount = 0 => games'[g].currentPlayer = Black
       /\ \A g \in (DOMAIN games) \cap (DOMAIN games') :
             games[g].isAIGame =>
                \A cell \in StonesPlaced(g) :
                   IF games'[g].board[cell[1]][cell[2]] = White
                   THEN PlacedByAI(g)
                   ELSE PlacedByHuman(g)]_vars

\* The AI has just answered the human's move in an AI game.
C19_Witness ==
    /\ lastOp.op = "aiMove"
    /\ Has(games, lastOp.game)
    /\ games[lastOp.game].isAIGame
    /\ games[lastOp.game].moveCount >= 2
    /\ LET h == games[lastOp.game].moveHistory
       IN /\ h[Len(h)].player = White
          /\ h[Len(h) - 1].player = Black
          /\ games[lastOp.game].board[h[Len(h)].row][h[Len(h)].col] = White

\* The AI's callback ran on a board that a reset had emptied.
C19_AIOnEmptyBoard ==
    /\ lastOp.op = "aiMove"
    /\ Has(games, lastOp.game)
    /\ games[lastOp.game].isAIGame
    /\ games[lastOp.game].board = initializeBoard

\* ------------------------------------------------------------------------
\* Joining again
\* ------------------------------------------------------------------------
\* The last operation is a joinGame or joinAIGame of a socket whose name was
\* indexed to a live game when it was sent.
JoinedAgain ==
    /\ lastOp'.op \in {"joinGame", "joinAIGame"}
    /\ Has(connectedPlayers, lastOp'.socket)
    /\ Has(playerGameMap, connectedPlayers[lastOp'.socket])
    /\ Has(games, playerGameMap[connectedPlayers[lastOp'.socket]])

\* C20: joinGame and joinAIGame from a name already indexed to a live game
\* do nothing, each time they are sent: no game is created, the queue, the
\* index and every game stay as they were and nothing is emitted.
C20_JoinAgainIsNoOp ==
    [][JoinedAgain =>
          /\ UNCHANGED <<games, nextGameId, waitingPlayers, playerGameMap, rooms,
                         startOverRequests, timers, aiTasks>>
          /\ lastEvents' = {}]_vars

\* A socket in a live game has just sent joinGame or joinAIGame again.
C20_Witness ==
    /\ lastOp.op \in {"joinGame", "joinAIGame"}
    /\ Has(connectedPlayers, lastOp.socket)
    /\ HasLiveGame(connectedPlayers[lastOp.socket])
    /\ lastOp.game = 0
    /\ lastEvents = {}

\* ------------------------------------------------------------------------
\* Joining a game against the AI
\* ------------------------------------------------------------------------
\* The last operation is a joinAIGame of a socket with a username whose name
\* was not indexed to a live game when it was sent.
JoinedAI ==
    /\ lastOp'.op = "joinAIGame"
    /\ Has(connectedPlayers, lastOp'.socket)
    /\ ~HasLiveGame(connectedPlayers[lastOp'.socket])

\* C21: joinAIGame creates one game in the same step, with the requester in
\* the black slot and first to move, the AI in the white slot and an empty
\* board, maps the requester's name to it, tells the requester it plays
\* black, and leaves the queue and every other game as they were.
C21_JoinAICreatesGameAtOnce ==
    [][JoinedAI =>
          LET s == lastOp'.socket
              g == lastOp'.game
          IN /\ g \notin DOMAIN games
             /\ DOMAIN games' = (DOMAIN games) \cup {g}
             /\ \A x \in DOMAIN games : games'[x] = games[x]
             /\ games'[g].isAIGame
             /\ games'[g].player1 = s
             /\ games'[g].player1Name = connectedPlayers[s]
             /\ games'[g].player2 = NoSocket
             /\ games'[g].player2Name = AIPlayerName
             /\ ColorOf(games'[g], s) = Black
             /\ games'[g].currentPlayer = Black
             /\ games'[g].board = initializeBoard
             /\ games'[g].moveCount = 0
             /\ ~games'[g].gameOver
             /\ playerGameMap' = Put(playerGameMap, connectedPlayers[s], g)
             /\ waitingPlayers' = waitingPlayers
             /\ SentIn(lastEvents', s, "gameStarted", g, Black)]_vars

\* A game against the AI has just been created while a player was in the
\* queue, and the queue still holds that player.
C21_Witness ==
    /\ lastOp.op = "joinAIGame"
    /\ Has(games, lastOp.game)
    /\ games[lastOp.game].isAIGame
    /\ games[lastOp.game].player1 = lastOp.socket
    /\ games[lastOp.game].moveCount = 0
    /\ waitingPlayers # <<>>

\* ------------------------------------------------------------------------
\* Moves on a finished game, and the end of a game
\* ------------------------------------------------------------------------
\* The fields of a game that a move can change.
Position(game) ==
    <<game.board, game.currentPlayer, game.moveCount, game.moveHistory,
      game.gameOver, game.winner>>

\* C22: once a game is finished, by a win or by a draw, every makeMove on
\* it, of either colour and on whatever cell, is refused and leaves the
\* board, the turn, the move count and the outcome as they were.
C22_FinishedGameRefusesMoves ==
    (probe.calls > 0 /\ probe.before.gameOver) =>
       /\ ~probe.out.success
       /\ Position(probe.game) = Position(probe.before)
       /\ probe.game = probe.before

\* The colour whose turn it nominally is has just tried an empty cell of a
\* game that a win ended.
C22_Witness ==
    /\ probe.calls > 0
    /\ probe.before.gameOver
    /\ probe.before.winner \in Colors
    /\ InBounds(probe.row, probe.col)
    /\ probe.before.board[probe.row][probe.col] = Null
    /\ probe.player = probe.before.currentPlayer

\* A move has just been tried on a game that a full board ended in a draw.
C22_DrawWitness ==
    /\ probe.calls > 0
    /\ probe.before.gameOver
    /\ probe.before.winner = Draw
    /\ probe.before.moveCount = BoardSize * BoardSize

\* The same through the handlers: whatever is sent, a finished game keeps
\* its board, turn, move count and outcome unless the step restarts it
\* (requestStartOver with both votes, or an accepted respondToNewGame).
FinishedGameStaysInPlay ==
    [][\A g \in (DOMAIN games) \cap (DOMAIN games') :
          games[g].gameOver =>
             \/ Position(games'[g]) = Position(games[g])
             \/ /\ lastOp'.op \in {"requestStartOver", "respondToNewGame", "resetAIGame"}
                /\ lastOp'.game = g
                /\ games'[g] = ResetGame(games[g])]_vars

\* The last call was on a cell of the board, and on an empty one.
OnBoard == probe.row \in 0 .. 18 /\ probe.col \in 0 .. 18
OnEmptyCell == OnBoard /\ probe.before.board[probe.row][probe.col] = Null
InTurn == probe.player = probe.before.currentPlayer

\* C23: a refused move carries the reason of the first check that fails, in
\* the order bounds, empty cell, turn, game over; so on an empty cell of a
\* finished game the colour whose turn it still is gets "Game is over" and
\* the other colour "Not your turn". A move that passes all four succeeds.
C23_FirstFailingCheckIsReported ==
    probe.calls > 0 =>
       /\ ~OnBoard => (~probe.out.success /\ probe.out.reason = "Move out of bounds")
       /\ (OnBoard /\ ~OnEmptyCell) =>
             (~probe.out.success /\ probe.out.reason = "Position already occupied")
       /\ (OnEmptyCell /\ ~InTurn) =>
             (~probe.out.success /\ probe.out.reason = "Not your turn")
       /\ (OnEmptyCell /\ InTurn /\ probe.before.gameOver) =>
             (~probe.out.success /\ probe.out.reason = "Game is over")
       /\ (OnEmptyCell /\ InTurn /\ ~probe.before.gameOver) => probe.out.success

\* The colour whose turn it is not has just tried an empty cell of a
\* finished game, and was told it is not its turn.
C23_Witness ==
    /\ probe.calls > 0
    /\ probe.before.gameOver
    /\ OnEmptyCell
    /\ ~InTurn
    /\ probe.out.reason = "Not your turn"

\* A call off the board on a finished game, by the colour not in turn.
C23_AllFailAtOnce ==
    /\ probe.calls > 0
    /\ probe.before.gameOver
    /\ ~OnBoard
    /\ ~InTurn

\* The stone of the last call completed five in a row.
MadeFive ==
    BruteForceWin(probe.game.board, probe.row, probe.col, probe.player)

\* C24: a game ends in a draw exactly when a successful move brings the move
\* count to the number of cells of the board without completing five in a
\* row; a move that fills the last cell and completes five in a row is a win
\* of its colour. A successful move that does neither leaves the game open.
C24_DrawOnlyOnFullBoardWithoutFive ==
    (probe.calls > 0 /\ probe.out.success) =>
       /\ probe.game.moveCount = probe.before.moveCount + 1
       /\ (probe.game.winner = Draw) <=>
             (probe.game.moveCount = 19 * 19 /\ ~MadeFive)
       /\ MadeFive => (probe.game.gameOver /\ probe.game.winner = probe.player)
       /\ probe.game.gameOver <=> (MadeFive \/ probe.game.moveCount = 19 * 19)

\* The 361st move has just filled the board without five in a row.
C24_Witness ==
    /\ probe.calls > 0
    /\ probe.out.success
    /\ probe.game.moveCount = 19 * 19
    /\ \A cell \in Cells : probe.game.board[cell[1]][cell[2]] # Null
    /\ ~MadeFive
    /\ probe.game.winner = Draw

\* The 361st move has just filled the board and completed five in a row.
C24_LastCellWins ==
    /\ probe.calls > 0
    /\ probe.out.success
    /\ probe.game.moveCount = 19 * 19
    /\ MadeFive
    /\ probe.game.winner = Black

\* ------------------------------------------------------------------------
\* The AI's choice of a cell
\* ------------------------------------------------------------------------
\* A stone of the colour on cell p would stand in n contiguous stones of
\* that colour on one of the four axes: some window of n cells of the axis
\* contains p, lies on the board and holds the colour on every other cell.
RunThrough(board, p, color, n) ==
    \E d \in 1 .. 4 : \E start \in 0 .. (n - 1) :
        \A j \in 0 .. (n - 1) :
            LET r == p[1] + (j - start) * directions[d][1]
                c == p[2] + (j - start) * directions[d][2]
            IN /\ r \in 0 .. 18
               /\ c \in 0 .. 18
               /\ (<<r, c>> = p \/ board[r][c] = color)

\* The empty cells where the colour would reach a run of n.
RunCells(board, color, n) ==
    {p \in Cells : board[p[1]][p[2]] = Null /\ RunThrough(board, p, color, n)}

\* The first cell of a non-empty set, rows from the top, each row from the
\* left.
FirstRowMajor(S) ==
    CHOOSE p \in S : \A q \in S : p[1] < q[1] \/ (p[1] = q[1] /\ p[2] <= q[2])

\* The last call was made on a board with an empty cell.
Planned ==
    /\ probe.kind = "getBestMove"
    /\ probe.done
    /\ \E p \in Cells : probe.board[p[1]][p[2]] = Null

\* The rule that decides on the board of the last call: 1 own win, 2 block a
\* win, 3 block a run of four, 4 own run of four, 5 position.
DecidingRule ==
    LET ai == probe.aiColor
        hu == Other(probe.aiColor)
    IN IF RunCells(probe.board, ai, 5) # {} THEN 1
       ELSE IF RunCells(probe.board, hu, 5) # {} THEN 2
       ELSE IF RunCells(probe.board, hu, 4) # {} THEN 3
       ELSE IF RunCells(probe.board, ai, 4) # {} THEN 4
       ELSE 5

\* C25: getBestMove returns the first empty cell, rows scanned from the top
\* and each row from the left, that wins for the AI; if there is none the
\* first that would win for the opponent; if none the first where the
\* opponent's run would reach four; if none the first where the AI's own run
\* would; if none a cell of the highest positional score.
C25_RulesInPriorityOrder ==
    Planned =>
       LET ai == probe.aiColor
           hu == Other(probe.aiColor)
       IN CASE DecidingRule = 1 ->
                  probe.out = {FirstRowMajor(RunCells(probe.board, ai, 5))}
            [] DecidingRule = 2 ->
                  probe.out = {FirstRowMajor(RunCells(probe.board, hu, 5))}
            [] DecidingRule = 3 ->
                  probe.out = {FirstRowMajor(RunCells(probe.board, hu, 4))}
            [] DecidingRule = 4 ->
                  probe.out = {FirstRowMajor(RunCells(probe.board, ai, 4))}
            [] OTHER ->
                  /\ probe.out # {}
                  /\ \A p \in probe.out :
                        /\ probe.board[p[1]][p[2]] = Null
                        /\ \A q \in Cells :
                              probe.board[q[1]][q[2]] = Null =>
                                 Score2(probe.board, ai, q) <= Score2(probe.board, ai, p)

\* The AI took its own win although a cell that blocks the opponent's win
\* comes first in the scan.
C25_Witness ==
    /\ Planned
    /\ DecidingRule = 1
    /\ RunCells(probe.board, Other(probe.aiColor), 5) # {}
    /\ probe.out = {FirstRowMajor(RunCells(probe.board, probe.aiColor, 5))}
    /\ LET mine   == FirstRowMajor(RunCells(probe.board, probe.aiColor, 5))
           theirs == FirstRowMajor(RunCells(probe.board, Other(probe.aiColor), 5))
       IN theirs[1] < mine[1]

\* Each of the lower rules decided a call, the third with a cell of the
\* fourth earlier in the scan.
C25_BlockDecides == Planned /\ DecidingRule = 2
C25_BlockFourDecides ==
    /\ Planned
    /\ DecidingRule = 3
    /\ RunCells(probe.board, probe.aiColor, 4) # {}
    /\ FirstRowMajor(RunCells(probe.board, probe.aiColor, 4))[1]
          < FirstRowMajor(RunCells(probe.board, Other(probe.aiColor), 4))[1]
C25_OwnFourDecides == Planned /\ DecidingRule = 4
C25_PositionDecides == Planned /\ DecidingRule = 5 /\ probe.board # initializeBoard

\* The last call of getBestMove has returned.
Answered == probe.kind = "getBestMove" /\ probe.done

\* C26: getBestMove returns null exactly when the board has no empty cell;
\* otherwise it returns a cell of the board that is empty, so that the
\* makeMove the AI then makes with it, in its turn on a game in play, is
\* valid: neither out of bounds nor on a taken cell.
C26_NullOnlyOnFullBoard ==
    Answered =>
       /\ (probe.out = {}) <=> (\A p \in Cells : probe.board[p[1]][p[2]] # Null)
       /\ \A p \in probe.out :
             /\ p[1] \in 0 .. 18
             /\ p[2] \in 0 .. 18
             /\ probe.board[p[1]][p[2]] = Null
             /\ isValidMove(GameInPlay(probe.board, probe.aiColor), p[1], p[2],
                            probe.aiColor) = "valid"

\* On a board with one empty cell the call returned that cell.
C26_Witness ==
    /\ Answered
    /\ StoneCount(probe.board) = 19 * 19 - 1
    /\ probe.out = {LastCell}

\* On the full board the call returned null.
C26_NullWitness ==
    /\ Answered
    /\ StoneCount(probe.board) = 19 * 19
    /\ probe.out = {}

\* C27: getBestMove is a function of the board and the two colours: on a
\* board with an empty cell findStrategicMove finds a cell, so getRandomMove
\* is never reached and the call has exactly one possible answer.
C27_OneAnswerPerBoard ==
    Planned =>
       /\ Cardinality(probe.out) = 1
       /\ findStrategicMove(probe.board, probe.aiColor, Other(probe.aiColor),
                            getEmptyPositions(probe.board)) # Null

\* On the empty board, where no rule but the scoring finds a cell and every
\* cell is free, the call has the one answer (9,9).
C27_Witness ==
    /\ Planned
    /\ probe.board = initializeBoard
    /\ DecidingRule = 5
    /\ probe.out = {<<9, 9>>}

\* ------------------------------------------------------------------------
\* Reconnection against the grace timer
\* ------------------------------------------------------------------------
\* The last operation is a reconnectToGame that was accepted.
ReconnectAccepted ==
    /\ lastOp'.op = "reconnectToGame"
    /\ \E e \in lastEvents' : e.event = "reconnectedToGame" /\ e.to = lastOp'.socket

\* C28: reconnection and the expiry of the grace timer exclude each other.
\* An accepted reconnectToGame binds the slot of a game that no timer has
\* removed and leaves no timeout pending for that game, so the timer of the
\* drop cannot fire afterwards; a timeout that fires removes its game, a
\* removed game never returns, so a reconnection after it is refused; and a
\* timeout pending for a live game always belongs to a dropped socket that
\* still holds its slot: no game is both re-bound and waiting to be removed.
C28_ReconnectOrTimeoutNotBoth ==
    [][/\ ReconnectAccepted =>
             /\ Has(games, lastOp'.game)
             /\ Has(games', lastOp'.game)
             /\ lastOp'.socket \in {games'[lastOp'.game].player1,
                                    games'[lastOp'.game].player2}
             /\ games'[lastOp'.game].disconnectTimeout = NoTimer
             /\ \A t \in timers' : t.gameId # lastOp'.game
       /\ lastOp'.op = "disconnectTimeout" =>
             /\ ~Has(games', lastOp'.game)
             /\ \A t \in timers' : ~(t.gameId = lastOp'.game /\ t.socket = lastOp'.socket)
       /\ \A g \in 1 .. (nextGameId - 1) : ~Has(games, g) => ~Has(games', g)
       /\ \A t \in timers' :
             Has(games', t.gameId) =>
                /\ t.socket \notin connected'
                /\ t.socket \in {games'[t.gameId].player1, games'[t.gameId].player2}
                /\ games'[t.gameId].disconnectTimeout = t.socket]_vars

\* A player whose earlier socket dropped out of a game is back in it on a
\* new socket, and no timeout is pending.
C28_Witness ==
    /\ lastOp.op = "reconnectToGame"
    /\ Has(games, lastOp.game)
    /\ \E e \in lastEvents : e.event = "reconnectedToGame"
    /\ lastOp.socket \in {games[lastOp.game].player1, games[lastOp.game].player2}
    /\ \E old \in (DOMAIN connectedPlayers) \ connected :
          connectedPlayers[old] = connectedPlayers[lastOp.socket]
    /\ timers = {}

\* ------------------------------------------------------------------------
\* Declining a new game, and votes after a reset
\* ------------------------------------------------------------------------
\* The last operation is a respondToNewGame with accept = false that a
\* player of a game between two players sent for that game.
Declined ==
    /\ lastOp'.op = "respondToNewGame"
    /\ Has(games, lastOp'.game)
    /\ ~games[lastOp'.game].isAIGame
    /\ lastOp'.socket \in {games[lastOp'.game].player1, games[lastOp'.game].player2}
    /\ ~lastOp'.accept

\* C29: a respondToNewGame with accept = false changes no state of the
\* game (board, turn, move count, outcome) nor the start-over votes, and
\* tells both players: the one in the other slot that the request was
\* declined, the sender that its answer was sent.
C29_DeclineChangesNothing ==
    [][Declined =>
          LET g     == games[lastOp'.game]
              s     == lastOp'.socket
              other == IF g.player1 = s THEN g.player2 ELSE g.player1
          IN /\ UNCHANGED <<games, startOverRequests, playerGameMap, waitingPlayers>>
             /\ \E e \in lastEvents' :
                   e.to = other /\ e.event = "newGameRejected" /\ e.game = g.id
             /\ \E e \in lastEvents' :
                   e.to = s /\ e.event = "newGameResponseSent" /\ e.game = g.id]_vars

\* White has just declined black's proposal in a game with stones on the
\* board, and both were told.
C29_Witness ==
    /\ lastOp.op = "respondToNewGame"
    /\ Has(games, lastOp.game)
    /\ games[lastOp.game].player2 = lastOp.socket
    /\ games[lastOp.game].player1 # lastOp.socket
    /\ games[lastOp.game].moveCount > 0
    /\ \E e \in lastEvents :
          e.to = games[lastOp.game].player1 /\ e.event = "newGameRejected"
    /\ \E e \in lastEvents :
          e.to = lastOp.socket /\ e.event = "newGameResponseSent"

\* The start-over votes held for a game.
VotesIn(requests, g) == IF Has(requests, g) THEN requests[g] ELSE {}

\* The events tell that the operation reset game g: a restart on both
\* votes, or an accepted new game.
ResetTold(op, events, g) ==
    /\ op.op \in {"requestStartOver", "respondToNewGame"}
    /\ op.game = g
    /\ \E e \in events : e.game = g /\ e.event \in {"gameRestarted", "newGameStarted"}

\* C30: right after a reset of a game between two players, by both votes to
\* start over or by an accepted new game, no start-over vote is held for
\* it; so a requestStartOver that comes next does not, by itself, reset the
\* game again.
C30_NoVotesAfterReset ==
    [][\A g \in (DOMAIN games) \cap (DOMAIN games') :
          ~games[g].isAIGame =>
             /\ ResetTold(lastOp', lastEvents', g) =>
                   VotesIn(startOverRequests', g) = {}
             /\ (ResetTold(lastOp, lastEvents, g)
                 /\ lastOp'.op = "requestStartOver" /\ lastOp'.game = g) =>
                   ~ResetTold(lastOp', lastEvents', g)]_vars

\* The second half by itself: a requestStartOver right after a reset does
\* not reset the game again.
NoResetOnSingleVote ==
    [][\A g \in (DOMAIN games) \cap (DOMAIN games') :
          (~games[g].isAIGame /\ ResetTold(lastOp, lastEvents, g)
           /\ lastOp'.op = "requestStartOver" /\ lastOp'.game = g) =>
             ~ResetTold(lastOp', lastEvents', g)]_vars

\* The restart on both votes does clear them.
RestartClearsVotes ==
    [][\A g \in (DOMAIN games) \cap (DOMAIN games') :
          (lastOp'.op = "requestStartOver" /\ ResetTold(lastOp', lastEvents', g)) =>
             VotesIn(startOverRequests', g) = {}]_vars

\* ------------------------------------------------------------------------
\* Restart of a game against the AI
\* ------------------------------------------------------------------------
\* The step is a requestStartOver that the player of a game against the AI
\* sent for that game.
AskedAIRestart ==
    /\ lastOp'.op = "requestStartOver"
    /\ Has(games, lastOp'.game)
    /\ games[lastOp'.game].isAIGame
    /\ Has(connectedPlayers, lastOp'.socket)
    /\ lastOp'.socket = games[lastOp'.game].player1

\* C31: in a game against the AI one requestStartOver of the player resets
\* the game in that step (empty board, black to move, no moves, no winner,
\* not over) and no start-over vote is left for the game.
C31_AIRestartOnOneRequest ==
    [][AskedAIRestart =>
          LET g == lastOp'.game
          IN /\ Has(games', g)
             /\ games'[g].board = initializeBoard
             /\ games'[g].currentPlayer = Black
             /\ games'[g].moveCount = 0
             /\ games'[g].moveHistory = <<>>
             /\ games'[g].winner = Null
             /\ ~games'[g].gameOver
             /\ games'[g].isAIGame
             /\ games'[g].player1 = games[g].player1
             /\ games'[g].player1Name = games[g].player1Name
             /\ ~Has(startOverRequests', g)
             /\ Ev(lastOp'.socket, "gameRestarted", g, Null, NoName, NoName)
                   \in lastEvents']_vars

\* A game against the AI with stones of both colours on the board has just
\* been restarted on its player's request.
C31_Witness ==
    /\ lastOp.op = "requestStartOver"
    /\ Has(games, lastOp.game)
    /\ games[lastOp.game].isAIGame
    /\ lastOp.socket = games[lastOp.game].player1
    /\ lastOp.was.moveCount >= 2
    /\ games[lastOp.game].moveCount = 0
    /\ games[lastOp.game].board = initializeBoard
    /\ ~Has(startOverRequests, lastOp.game)
    /\ \E e \in lastEvents : e.event = "gameRestarted" /\ e.to = lastOp.socket

\* ------------------------------------------------------------------------
\* The outcome and the board
\* ------------------------------------------------------------------------
\* Some five cells in a row on one of the four axes hold color's stones.
HasFive(board, color) ==
    \E p \in Cells : \E d \in 1 .. Len(directions) :
        \A j \in 0 .. (WinLength - 1) :
            LET r == p[1] + j * directions[d][1]
                c == p[2] + j * directions[d][2]
            IN InBounds(r, c) /\ board[r][c] = color

\* The outcome of game agrees with its board.
OutcomeFitsBoard(game) ==
    /\ game.winner \in Colors => HasFive(game.board, game.winner)
    /\ ~game.gameOver =>
          /\ game.winner = Null
          /\ ~HasFive(game.board, Black)
          /\ ~HasFive(game.board, White)
          /\ StoneCount(game.board) < BoardSize * BoardSize

\* C32: in every game of the games Map the winner is black (white) only if
\* the board holds five or more black (white) stones in a row on one axis,
\* and a game that is not over has no five in a row of either colour and
\* fewer stones than cells.
C32_OutcomeFitsBoard ==
    \A g \in DOMAIN games : OutcomeFitsBoard(games[g])

\* A game won by white, with white's five on the board and no five of black.
C32_Witness ==
    \E g \in DOMAIN games :
        /\ games[g].gameOver
        /\ games[g].winner = White
        /\ HasFive(games[g].board, White)
        /\ ~HasFive(games[g].board, Black)

\* A game won by black.
C32_BlackWon ==
    \E g \in DOMAIN games :
        games[g].gameOver /\ games[g].winner = Black /\ HasFive(games[g].board, Black)

\* The same for the games that makeMove is called on directly, which
\* include boards of 360 and 361 stones.
OutcomeFitsBoardInMove ==
    probe.kind = "moves" => OutcomeFitsBoard(probe.game)

\* ------------------------------------------------------------------------
\* The board, the move count and the move log
\* ------------------------------------------------------------------------
\* Every cell of the game's board is empty, black or white; as many cells
\* are occupied as moveCount says; the log has moveCount entries, numbered
\* 1, 2, ... in order, on different cells, each with the stone of its cell.
LogFitsBoard(game) ==
    /\ \A p \in Cells : game.board[p[1]][p[2]] \in {Null, Black, White}
    /\ StoneCount(game.board) = game.moveCount
    /\ Len(game.moveHistory) = game.moveCount
    /\ \A i \in 1 .. Len(game.moveHistory) :
          LET m == game.moveHistory[i]
          IN /\ m.moveNumber = i
             /\ InBounds(m.row, m.col)
             /\ game.board[m.row][m.col] = m.player
             /\ \A j \in 1 .. (i - 1) :
                   <<game.moveHistory[j].row, game.moveHistory[j].col>>
                      # <<m.row, m.col>>

\* C33: in every reachable state every game's board, moveCount and
\* moveHistory agree: one of empty, black, white per cell, moveCount
\* occupied cells, moveCount log entries numbered 1..moveCount in order,
\* each naming the stone that lies on its cell.
C33_LogFitsBoard ==
    \A g \in DOMAIN games : LogFitsBoard(games[g])

\* A game in play, just after a move, with four or more stones on the board
\* and moves of both colours in its log.
C33_Witness ==
    /\ lastOp.op = "makeMove"
    /\ Has(games, lastOp.game)
    /\ games[lastOp.game].moveCount >= 4
    /\ ~games[lastOp.game].gameOver
    /\ \E i, j \in 1 .. Len(games[lastOp.game].moveHistory) :
          /\ games[lastOp.game].moveHistory[i].player = Black
          /\ games[lastOp.game].moveHistory[j].player = White

\* ------------------------------------------------------------------------
\* The AI's answer to a game that is gone
\* ------------------------------------------------------------------------
\* The events that tell of a stone placed or of the end of a game.
MoveEvents == {"gameUpdate", "moveConfirmed", "gameEnded"}

\* C34: the AI's move that a player's move scheduled is made only if the
\* game is still in the games Map when the AI has finished thinking: once
\* the player has quit or left, the AI places no stone on that game's board
\* and no gameUpdate, moveConfirmed or gameEnded is sent for it.
C34_NoAIMoveOnRemovedGame ==
    [][(lastOp'.op = "aiMove" /\ ~Has(games, lastOp'.game)) =>
          /\ \A e \in lastEvents' :
                ~(e.game = lastOp'.game /\ e.event \in MoveEvents)
          /\ Has(orphans, lastOp'.game) /\ Has(orphans', lastOp'.game) =>
                orphans'[lastOp'.game].board = orphans[lastOp'.game].board]_vars

\* The same for a game removed before the 500 ms timeout ran: there the
\* AI's move is dropped.
NoAIMoveWhenGoneBeforeTimeout ==
    [][(lastOp'.op = "handleAIMove" /\ ~Has(games, lastOp'.game)) =>
          /\ lastEvents' = {}
          /\ \A i \in DOMAIN aiTasks' : aiTasks'[i].gameId # lastOp'.game]_vars

\* ------------------------------------------------------------------------
\* The AI answers
\* ------------------------------------------------------------------------
\* Game g is a game against the AI, in play, with white to move.
AIToMove(g) ==
    /\ Has(games, g)
    /\ games[g].isAIGame
    /\ ~games[g].gameOver
    /\ games[g].currentPlayer = White

\* A run of handleAIMove is pending for game g.
AIMovePending(g) == \E i \in DOMAIN aiTasks : aiTasks[i].gameId = g

\* The AI has just placed a white stone on game g.
AIPlaced(g) ==
    /\ lastOp.op = "aiMove"
    /\ lastOp.game = g
    /\ \E e \in lastEvents : e.event = "moveConfirmed" /\ e.game = g /\ e.a = White

\* The player has just reset game g, which takes the turn back to black.
PlayerReset(g) ==
    /\ lastOp.op \in {"requestStartOver", "resetAIGame"}
    /\ lastOp.game = g
    /\ Has(games, g)
    /\ games[g].moveCount = 0

\* C35: in a game against the AI that stays in the games Map, whenever the
\* game is in play with white to move, a run of handleAIMove is pending for
\* it, and, the timeouts running when they are due, the AI then places a
\* white stone, unless the player resets the game first; this also holds
\* when the player restarts or resets and moves again while an earlier
\* answer of the AI is still pending.
C35_AIAnswers ==
    \A g \in 1 .. MaxGames :
        /\ [](AIToMove(g) => AIMovePending(g))
        /\ AIToMove(g) ~> (AIPlaced(g) \/ PlayerReset(g))

\* The statement without the exception: whenever a game against the AI is
\* in play with white to move, the AI then places a white stone.
C35_AIAlwaysAnswers ==
    \A g \in 1 .. MaxGames : AIToMove(g) ~> AIPlaced(g)

\* The AI has answered a move that the player made after a reset, while a
\* second run of handleAIMove is still pending for the game.
C35_Witness ==
    \E g \in DOMAIN games :
        /\ AIPlaced(g)
        /\ games[g].moveCount = 2
        /\ games[g].currentPlayer = Black
        /\ AIMovePending(g)

\* ------------------------------------------------------------------------
\* Two parties per game
\* ------------------------------------------------------------------------
\* C36: the two slots of every game are held by two different parties: no
\* game has the same socket or the same name in the black and in the white
\* slot, also when a player who is waiting in the queue sends joinGame again.
C36_TwoPartiesPerGame ==
    \A g \in DOMAIN games :
        /\ games[g].player1 # games[g].player2
        /\ games[g].player1Name # games[g].player2Name

\* ------------------------------------------------------------------------
\* The index of the players' games
\* ------------------------------------------------------------------------
\* The names of the players of a game, the AI not being one.
HumanNames(game) ==
    {game.player1Name} \cup (IF game.isAIGame THEN {} ELSE {game.player2Name})

\* playerGameMap binds name to game g.
Indexed(index, name, g) == Has(index, name) /\ index[name] = g

\* C37: for every game in the games Map, playerGameMap maps the name of
\* each of its players to the game's id; the end of one game (a quit, a
\* leave, a disconnect timeout that fires, also for a game that is gone
\* already) never deletes or overwrites the entry that binds a name to
\* another game that is still live.
C37_IndexHoldsLiveGames ==
    /\ \A g \in DOMAIN games : \A n \in HumanNames(games[g]) :
          Indexed(playerGameMap, n, g)
    /\ [][\A g \in (DOMAIN games) \cap (DOMAIN games') :
             \A n \in HumanNames(games[g]) :
                (lastOp'.op \in {"playerDisconnect", "leaveGame", "disconnectTimeout"}
                 /\ Indexed(playerGameMap, n, g))
                   => Indexed(playerGameMap', n, g)]_vars

\* The second half alone: the end of a game leaves the entries of the other
\* live games as they are.
C37_TeardownKeepsOtherEntries ==
    [][\A g \in (DOMAIN games) \cap (DOMAIN games') :
          \A n \in HumanNames(games[g]) :
             (lastOp'.op \in {"playerDisconnect", "leaveGame", "disconnectTimeout"}
              /\ Indexed(playerGameMap, n, g))
                => Indexed(playerGameMap', n, g)]_vars

\* ------------------------------------------------------------------------
\* The turn and the move count
\* ------------------------------------------------------------------------
\* The number of color's stones on the board.
ColorCount(board, color) ==
    Cardinality({p \in Cells : board[p[1]][p[2]] = color})

\* C38: in every game that is not over it is black's turn exactly when
\* moveCount is even and white's exactly when it is odd, and in every game
\* the black stones are as many as the white ones or one more, from the
\* game's creation on and after any moves, restarts and new games.
C38_TurnFollowsMoveCount ==
    \A g \in DOMAIN games :
        /\ ~games[g].gameOver =>
              /\ games[g].currentPlayer = Black <=> games[g].moveCount % 2 = 0
              /\ games[g].currentPlayer = White <=> games[g].moveCount % 2 = 1
        /\ ColorCount(games[g].board, Black) - ColorCount(games[g].board, White)
              \in {0, 1}

\* A game in play with white to move after three moves.
C38_Witness ==
    \E g \in DOMAIN games :
        /\ ~games[g].gameOver
        /\ games[g].moveCount = 3
        /\ games[g].currentPlayer = White
        /\ ColorCount(games[g].board, Black) = 2
        /\ ColorCount(games[g].board, White) = 1

\* A restart has taken effect while it was white's turn.
C38_RestartOnWhitesTurn ==
    /\ Restarted
    /\ ~lastOp.was.gameOver
    /\ lastOp.was.moveCount % 2 = 1
    /\ games[lastOp.game].moveCount = 0
    /\ games[lastOp.game].currentPlayer = Black

\* ------------------------------------------------------------------------
\* The names in gameEnded
\* ------------------------------------------------------------------------
\* A gameEnded event of game names its winner and its loser rightly: the
\* player of the winning colour and the other player after a win, and
\* neither player after a draw.
NamedRightly(e, game) ==
    /\ e.a = Black => e.b = game.player1Name /\ e.c = game.player2Name
    /\ e.a = White => e.b = game.player2Name /\ e.c = game.player1Name
    /\ e.a = Draw =>
          /\ e.b \notin {game.player1Name, game.player2Name}
          /\ e.c \notin {game.player1Name, game.player2Name}

\* C39: gameEnded names as winnerName the player of the winning colour and
\* as loserName the other player when black or white has won, and names
\* neither player as winner or as loser when the game is a draw.
C39_EndNamesWinnerAndLoser ==
    \A e \in lastEvents :
        (e.event = "gameEnded" /\ Has(games, e.game)) =>
            NamedRightly(e, games[e.game])

\* The first half alone: after a win the event names the two players
\* rightly.
C39_WinNamesWinnerAndLoser ==
    \A e \in lastEvents :
        (e.event = "gameEnded" /\ Has(games, e.game) /\ e.a \in Colors) =>
            NamedRightly(e, games[e.game])

\* gameEnded has been sent for a win of white and, in another run, of black.
C39_WhiteWinTold ==
    \E e \in lastEvents : e.event = "gameEnded" /\ e.a = White /\ e.b = Bob
C39_BlackWinTold ==
    \E e \in lastEvents : e.event = "gameEnded" /\ e.a = Black /\ e.b = Ann

\* ------------------------------------------------------------------------
\* getBestMove and the board it is given
\* ------------------------------------------------------------------------
\* C40: getBestMove leaves the board it is given as it was: every stone
\* that findWinningMove places to try a position is removed again before
\* the call returns, whether a winning position was found or not.
C40_BestMoveLeavesBoard ==
    (probe.kind = "getBestMove" /\ probe.done) => probe.after = probe.board

\* getBestMove has returned from inside findWinningMove's loop, with the
\* AI's winning move, and the board is as it was.
C40_Witness ==
    /\ Planned
    /\ DecidingRule = 1
    /\ probe.after = probe.board
    /\ \E p \in probe.out : probe.board[p[1]][p[2]] = Null

\* Both loops of findWinningMove have run to their end without a find.
C40_NothingFound ==
    /\ Planned
    /\ DecidingRule >= 3
    /\ probe.after = probe.board

\* In a game, the AI's turn changes the board by the one stone that
\* makeMove places, or not at all.
AITurnPlacesOneStone ==
    [][(lastOp'.op = "aiMove" /\ Has(games, lastOp'.game)
        /\ Has(games', lastOp'.game)) =>
          LET before  == games[lastOp'.game].board
              after   == games'[lastOp'.game].board
              changed == {p \in Cells : before[p[1]][p[2]] # after[p[1]][p[2]]}
          IN /\ Cardinality(changed) <= 1
             /\ \A p \in changed :
                   /\ before[p[1]][p[2]] = Null
                   /\ after[p[1]][p[2]] = AIColorOf(games[lastOp'.game])
             /\ Cardinality(changed) = 1 <=>
                   (\E e \in lastEvents' : e.event = "moveConfirmed")]_vars

====
